---- MODULE Spec2Model ----
(***************************************************************************)
(* Model of pyfitterbap.pubsub: the hierarchical publish/subscribe engine  *)
(* (class PubSub) and its topic nodes (class _Topic).                      *)
(*                                                                         *)
(* A topic string is a sequence of one-character strings, so that the      *)
(* suffix stripping, the '/' split and the prefix tests are computed the   *)
(* way the code computes them.  The topic tree is the sequence of its      *)
(* nodes in creation order; a node's key is the list of child keys from    *)
(* the root down to it (so the parent and the children of a node, in dict  *)
(* insertion order, are read off the keys).  Values and metadata are       *)
(* opaque payloads (strings); "None" is Python's None.  Callbacks are the  *)
(* recording callbacks of the unit tests (sub1_fn, sub2_fn): what they     *)
(* receive is kept, in order, in the record of the call that caused it.    *)
(***************************************************************************)
EXTENDS Integers, Sequences, FiniteSets, TLC

VARIABLES
    tree,   \* PubSub._root and everything below it
    last,   \* the most recent public call: arguments, outcome, deliveries
    pre,    \* the tree as it was when that call was made
    budget, \* number of public calls the run may still make
    inner,  \* the topic tree of the engine on the device side of a Device
    resync, \* Resync._resync_queue: calls of _subscribe_device still to be made
    relayed, \* the comm.publish calls _subscribe_parent made during the last call
    pc,     \* where each producer thread stands in Resync._resync_handle
    posted, \* the _ResyncEvent objects posted to the Qt event loop, oldest first
    ran,    \* what Resync.event did, one entry per event handled
    enq,    \* the wrapped calls in the order they were put on the queue
    widget  \* a Value of the device widget: its _value and its editor's index

vars == <<tree, last, pre, budget, inner, resync, relayed, pc, posted, ran, enq,
          widget>>

\* The threads around a Resync.
threads == <<pc, posted, ran, enq>>

\* What belongs to a Device and its user interface; an engine without one
\* never touches it.
bridge == <<inner, resync, relayed, threads, widget>>

None == "None"

\* ------------------------------------------------------------------ bounds

\* Number of public calls in one run of Spec.
MaxOps == 3

\* Number of public calls in one run of SpecValue.
MaxValueOps == 4

\* ------------------------------------------------------------- topic text

\* PubSub(topic_prefix='hello') of the tests: the namespace this engine owns.
TopicPrefix == <<"a">>

T_root == <<>>
T_a == <<"a">>
T_ab == <<"a", "/", "b">>
T_b == <<"b">>
T_bc == <<"b", "/", "c">>

\* str.startswith
StartsWith(s, p) == Len(p) <= Len(s) /\ SubSeq(s, 1, Len(p)) = p

\* str.endswith
EndsWith(s, p) == Len(p) <= Len(s) /\ SubSeq(s, Len(s) - Len(p) + 1, Len(s)) = p

\* The suffix loop of _topic_find as an `if`: one character is removed.
StripSuffix_Once(topic) ==
    IF Len(topic) > 0 /\ topic[Len(topic)] \in {"/", "$", "?"}
    THEN SubSeq(topic, 1, Len(topic) - 1)
    ELSE topic

\* while len(topic) and topic[-1] in '/$?': topic = topic[:-1]
RECURSIVE StripSuffix(_)
StripSuffix(topic) ==
    IF Len(topic) > 0 /\ topic[Len(topic)] \in {"/", "$", "?"}
    THEN StripSuffix(SubSeq(topic, 1, Len(topic) - 1))
    ELSE topic

\* topic.split('/'), reading from character i with part cur under way
RECURSIVE SplitFrom(_, _, _, _)
SplitFrom(topic, i, cur, acc) ==
    IF i > Len(topic) THEN Append(acc, cur)
    ELSE IF topic[i] = "/" THEN SplitFrom(topic, i + 1, <<>>, Append(acc, cur))
    ELSE SplitFrom(topic, i + 1, Append(cur, topic[i]), acc)

Split(topic) == SplitFrom(topic, 1, <<>>, <<>>)

\* '/'.join(parts)
RECURSIVE Join(_)
Join(parts) ==
    IF Len(parts) = 0 THEN <<>>
    ELSE IF Len(parts) = 1 THEN parts[1]
    ELSE Join(SubSeq(parts, 1, Len(parts) - 1)) \o <<"/">> \o parts[Len(parts)]

\* ------------------------------------------------------------------ nodes

\* _Topic(parent, topic): the node reached from the root by the child keys key
NewTopic(key) ==
    [key |-> key, topic |-> Join(key), value |-> None, meta |-> None,
     subscribers |-> <<>>]

\* Position of the node with this key in t, 0 when there is none
\* (the chain of children.get(part) from the root).
IndexOf(t, key) ==
    IF \E i \in 1..Len(t) : t[i].key = key
    THEN CHOOSE i \in 1..Len(t) : t[i].key = key
    ELSE 0

\* topic.parent(): position of the parent node, 0 for the root
ParentOf(t, i) ==
    IF Len(t[i].key) = 0 THEN 0
    ELSE IndexOf(t, SubSeq(t[i].key, 1, Len(t[i].key) - 1))

\* topic.children.values(), in dict insertion order
ChildrenOf(t, i) ==
    LET isChild(j) == /\ Len(t[j].key) = Len(t[i].key) + 1
                      /\ SubSeq(t[j].key, 1, Len(t[i].key)) = t[i].key
        RECURSIVE Collect(_)
        Collect(j) == IF j > Len(t) THEN <<>>
                      ELSE IF isChild(j) THEN <<j>> \o Collect(j + 1)
                      ELSE Collect(j + 1)
    IN Collect(1)

\* The descent of _topic_find creating the last node only, without the
\* segments on the way to it.
FindFrom_LeafOnly(t, parts, n, create) ==
    IF IndexOf(t, parts) # 0 THEN [tree |-> t, idx |-> IndexOf(t, parts)]
    ELSE IF create THEN [tree |-> Append(t, NewTopic(parts)), idx |-> Len(t) + 1]
    ELSE [tree |-> t, idx |-> 0]

\* The descent of _topic_find with n parts already resolved.
RECURSIVE FindFrom(_, _, _, _)
FindFrom(t, parts, n, create) ==
    IF n = Len(parts) THEN [tree |-> t, idx |-> IndexOf(t, parts)]
    ELSE LET key == SubSeq(parts, 1, n + 1) IN
         IF IndexOf(t, key) # 0 THEN FindFrom(t, parts, n + 1, create)
         ELSE IF create THEN FindFrom(Append(t, NewTopic(key)), parts, n + 1, create)
         ELSE [tree |-> t, idx |-> 0]

\* PubSub._topic_find: the tree afterwards and the node found (idx 0: None)
TopicFind(t, topic, create) ==
    LET s == StripSuffix(topic) IN
    IF Len(s) = 0 THEN [tree |-> t, idx |-> 1]
    ELSE FindFrom(t, Split(s), 0, create)

\* The descent of _topic_find_existing_base with n parts already resolved.
RECURSIVE BaseFrom(_, _, _)
BaseFrom(t, parts, n) ==
    IF n = Len(parts) THEN IndexOf(t, parts)
    ELSE IF IndexOf(t, SubSeq(parts, 1, n + 1)) = 0 THEN IndexOf(t, SubSeq(parts, 1, n))
    ELSE BaseFrom(t, parts, n + 1)

\* _topic_find_existing_base returning the root without descending.
TopicFindExistingBase_Root(t, topic) == 1

\* PubSub._topic_find_existing_base: the deepest existing node along topic
TopicFindExistingBase(t, topic) ==
    LET s == StripSuffix(topic) IN
    IF Len(s) = 0 THEN 1 ELSE BaseFrom(t, Split(s), 0)

\* ----------------------------------------------------------- _Topic methods

\* One invocation subscriber(topic, value, retain) of a recording callback.
Event(cbk, topic, value, retain) ==
    [cbk |-> cbk, topic |-> topic, value |-> value, retain |-> retain]

\* The loop of _Topic.publish at one node with the src_cbk test left out.
NotifyNode_NoExclusion(subs, topic, x, retain, src_cbk) ==
    [j \in 1..Len(subs) |-> Event(subs[j].cbk, topic, x, retain)]

\* The loop over topic._subscribers of _Topic.publish at one node: every
\* registration whose callback is not src_cbk is invoked, in list order.
NotifyNode(subs, topic, x, retain, src_cbk) ==
    LET keep == SelectSeq(subs, LAMBDA s : s.cbk # src_cbk)
    IN [j \in 1..Len(keep) |-> Event(keep[j].cbk, topic, x, retain)]

\* The while loop of _Topic.publish passing topic._topic, the path of the node
\* whose subscribers are being invoked, instead of self._topic.
RECURSIVE NotifyUp_OwnTopic(_, _, _, _, _, _)
NotifyUp_OwnTopic(t, i, topic, x, retain, src_cbk) ==
    IF i = 0 THEN <<>>
    ELSE NotifyNode(t[i].subscribers, t[i].topic, x, retain, src_cbk)
         \o NotifyUp_OwnTopic(t, ParentOf(t, i), topic, x, retain, src_cbk)

\* The walk of _Topic.publish made from the root down to the node.
RECURSIVE NotifyUp_RootFirst(_, _, _, _, _, _)
NotifyUp_RootFirst(t, i, topic, x, retain, src_cbk) ==
    IF i = 0 THEN <<>>
    ELSE NotifyUp_RootFirst(t, ParentOf(t, i), topic, x, retain, src_cbk)
         \o NotifyNode(t[i].subscribers, topic, x, retain, src_cbk)

\* The while loop of _Topic.publish: node i, then its parent, up to the root;
\* every invocation carries the topic of the node published to.
RECURSIVE NotifyUp(_, _, _, _, _, _)
NotifyUp(t, i, topic, x, retain, src_cbk) ==
    IF i = 0 THEN <<>>
    ELSE NotifyNode(t[i].subscribers, topic, x, retain, src_cbk)
         \o NotifyUp(t, ParentOf(t, i), topic, x, retain, src_cbk)

\* _Topic.publish with the assignment self._value = x left out.
TopicPublish_NoStore(t, i, x, retain, src_cbk) ==
    IF retain = "True"
    THEN IF t[i].value = x
         THEN [tree |-> t, events |-> <<>>]
         ELSE [tree |-> t,
               events |-> NotifyUp(t, i, t[i].topic, x, retain, src_cbk)]
    ELSE [tree |-> [t EXCEPT ![i].value = None],
          events |-> NotifyUp(t, i, t[i].topic, x, retain, src_cbk)]

\* _Topic.publish with the deduplication test left out.
TopicPublish_NoDedup(t, i, x, retain, src_cbk) ==
    IF retain = "True"
    THEN [tree |-> [t EXCEPT ![i].value = x],
          events |-> NotifyUp(t, i, t[i].topic, x, retain, src_cbk)]
    ELSE [tree |-> [t EXCEPT ![i].value = None],
          events |-> NotifyUp(t, i, t[i].topic, x, retain, src_cbk)]

\* _Topic.publish with the else branch (self._value = None) left out.
TopicPublish_NoClear(t, i, x, retain, src_cbk) ==
    IF retain = "True"
    THEN IF t[i].value = x
         THEN [tree |-> t, events |-> <<>>]
         ELSE [tree |-> [t EXCEPT ![i].value = x],
               events |-> NotifyUp(t, i, t[i].topic, x, retain, src_cbk)]
    ELSE [tree |-> t,
          events |-> NotifyUp(t, i, t[i].topic, x, retain, src_cbk)]

\* _Topic.publish resetting the node (value and metadata) when not retaining.
TopicPublish_ClearMeta(t, i, x, retain, src_cbk) ==
    IF retain = "True"
    THEN IF t[i].value = x
         THEN [tree |-> t, events |-> <<>>]
         ELSE [tree |-> [t EXCEPT ![i].value = x],
               events |-> NotifyUp(t, i, t[i].topic, x, retain, src_cbk)]
    ELSE [tree |-> [t EXCEPT ![i].value = None, ![i].meta = None],
          events |-> NotifyUp(t, i, t[i].topic, x, retain, src_cbk)]

\* _Topic.publish on node i: the tree afterwards and the invocations made
TopicPublish(t, i, x, retain, src_cbk) ==
    IF retain = "True"
    THEN IF t[i].value = x
         THEN [tree |-> t, events |-> <<>>]
         ELSE [tree |-> [t EXCEPT ![i].value = x],
               events |-> NotifyUp(t, i, t[i].topic, x, retain, src_cbk)]
    ELSE [tree |-> [t EXCEPT ![i].value = None],
          events |-> NotifyUp(t, i, t[i].topic, x, retain, src_cbk)]

\* The loop of _Topic.forward at one node without the test of the forward flag.
ForwardNode_All(subs, topic, value, retain, src_cbk) ==
    LET keep == SelectSeq(subs, LAMBDA s : s.cbk # src_cbk)
    IN [j \in 1..Len(keep) |-> Event(keep[j].cbk, topic, value, retain)]

\* The loop of _Topic.forward at one node: only forward registrations, and
\* never src_cbk.
ForwardNode(subs, topic, value, retain, src_cbk) ==
    LET keep == SelectSeq(subs, LAMBDA s : s.cbk # src_cbk /\ s.forward)
    IN [j \in 1..Len(keep) |-> Event(keep[j].cbk, topic, value, retain)]

\* _Topic.forward on node i: the invocations made
RECURSIVE TopicForward(_, _, _, _, _, _, _)
TopicForward(t, i, topic, value, retain, src_cbk, traverse_parent) ==
    ForwardNode(t[i].subscribers, topic, value, retain, src_cbk)
    \o (IF traverse_parent /\ ParentOf(t, i) # 0
        THEN TopicForward(t, ParentOf(t, i), topic, value, retain, src_cbk,
                          traverse_parent)
        ELSE <<>>)

\* _Topic._publish_new_subscriber without the loop over the children.
PublishNewSubscriber_NoChildren(t, i, cbk) ==
    IF t[i].value # None
    THEN <<Event(cbk, t[i].topic, t[i].value, None)>>
    ELSE <<>>

\* _Topic._publish_new_subscriber on node i: the children first (in insertion
\* order, each with its own subtree), then the node's own retained value;
\* cbk(topic, value) leaves the callback's retain parameter at its default.
RECURSIVE PublishNewSubscriber(_, _, _)
RECURSIVE PublishNewSubscriberAll(_, _, _)
PublishNewSubscriber(t, i, cbk) ==
    PublishNewSubscriberAll(t, ChildrenOf(t, i), cbk)
    \o (IF t[i].value # None
        THEN <<Event(cbk, t[i].topic, t[i].value, None)>>
        ELSE <<>>)

PublishNewSubscriberAll(t, kids, cbk) ==
    IF Len(kids) = 0 THEN <<>>
    ELSE PublishNewSubscriber(t, kids[1], cbk)
         \o PublishNewSubscriberAll(t, Tail(kids), cbk)

\* callable(cbk): the callbacks are functions; None and an int ("#0") are not.
Callable(cbk) == cbk \notin {None, "#0"}

\* `cbk not in self._subscribers`: the list holds (callback, forward) tuples, and
\* a callback never equals a tuple, so the test is true for every callback.
NotInSubscribers(subs, cbk) ==
    \A j \in 1..Len(subs) : <<subs[j].cbk, subs[j].forward>> # <<cbk>>

\* _Topic.subscribe replaying whatever skip_retained says.
TopicSubscribe_IgnoreSkip(t, i, cbk, skip_retained, forward) ==
    LET t1 == [t EXCEPT ![i].subscribers =
                  Append(@, [cbk |-> cbk, forward |-> forward])]
    IN [tree |-> t1, events |-> PublishNewSubscriber(t1, i, cbk), result |-> "ok"]

\* _Topic.subscribe on node i; result "ValueError" when cbk is not callable
TopicSubscribe(t, i, cbk, skip_retained, forward) ==
    LET t1 == IF NotInSubscribers(t[i].subscribers, cbk)
              THEN [t EXCEPT ![i].subscribers =
                        Append(@, [cbk |-> cbk, forward |-> forward])]
              ELSE t
    IN IF ~Callable(cbk)
       THEN [tree |-> t, events |-> <<>>, result |-> "ValueError"]
       ELSE [tree |-> t1,
             events |-> IF ~skip_retained THEN PublishNewSubscriber(t1, i, cbk)
                        ELSE <<>>,
             result |-> "ok"]

\* _Topic.unsubscribe popping only the first registration of cbk.
TopicUnsubscribe_FirstOnly(t, i, cbk) ==
    LET subs == t[i].subscribers
        hits == {k \in 1..Len(subs) : subs[k].cbk = cbk}
        first == CHOOSE k \in hits : \A h \in hits : k <= h
    IN IF hits = {} THEN t
       ELSE [t EXCEPT ![i].subscribers =
                SubSeq(subs, 1, first - 1) \o SubSeq(subs, first + 1, Len(subs))]

\* _Topic.unsubscribe on node i: every registration of cbk is popped
TopicUnsubscribe(t, i, cbk) ==
    [t EXCEPT ![i].subscribers = SelectSeq(@, LAMBDA s : s.cbk # cbk)]

\* ------------------------------------------------------------- metadata

\* The retain flags a descriptor is given.  An int is written "#0", "#1", "#2", a
\* bool "#False", "#True", a str as it is.
RetainFlags ==
    {"#0", "#1", "#2", "#False", "#True",
     "no", "yes", "off", "on", "disable", "enable", "disabled", "enabled",
     "false", "true", "inactive", "active",
     "YES", "Off", "True", "Enabled", "maybe", "y"}

\* The metadata descriptors used, each a Mapping: "M1" is {'type': 'u32'} (the one
\* of test_meta), "MD1" declares a default with the retain flag 1, "MDX" one with
\* the retain flag 'maybe', "MDN" a default and no retain flag, "MN0" and "MN1" the
\* default None with the retain flags 0 and 1; a descriptor named by a retain flag
\* declares the default "v1" and that flag.
Descriptor(meta) ==
    CASE meta = "M1" -> [type |-> "u32"]
      [] meta = "MD1" -> [type |-> "u32", default |-> "v1", retain |-> "#1"]
      [] meta = "MDX" -> [type |-> "u32", default |-> "v1", retain |-> "maybe"]
      [] meta = "MDN" -> [type |-> "u32", default |-> "v1"]
      [] meta = "MN0" -> [type |-> "u32", default |-> None, retain |-> "#0"]
      [] meta = "MN1" -> [type |-> "u32", default |-> None, retain |-> "#1"]
      [] meta \in RetainFlags -> [type |-> "u32", default |-> "v1", retain |-> meta]

\* 'default' in meta
HasDefault(meta) == "default" \in DOMAIN Descriptor(meta)

\* meta['default']
DefaultOf(meta) == Descriptor(meta).default

\* meta.get('retain', 0)
RetainOf(meta) ==
    IF "retain" \in DOMAIN Descriptor(meta) THEN Descriptor(meta).retain ELSE "#0"

\* isinstance(x, str)
IsStr(x) == x \notin {"#0", "#1", "#2", "#False", "#True"}

\* x.lower() of a str
Lower(x) ==
    CASE x = "YES" -> "yes"
      [] x = "Off" -> "off"
      [] x = "True" -> "true"
      [] x = "Enabled" -> "enabled"
      [] OTHER -> x

\* x in list: Python compares with ==, under which False == 0 and True == 1
InList(x, list) ==
    \/ x \in list
    \/ x = "#False" /\ "#0" \in list
    \/ x = "#True" /\ "#1" \in list

\* _as_bool without the lower-casing of a str.
AsBool_NoLower(x) ==
    IF InList(x, {"#0", "no", "off", "disable", "disabled", "false", "inactive"})
    THEN "False"
    ELSE IF InList(x, {"#1", "yes", "on", "enable", "enabled", "true", "active"})
    THEN "True"
    ELSE "ValueError"

\* _as_bool: "False", "True", or "ValueError" when it raises
AsBool(x) ==
    LET y == IF IsStr(x) THEN Lower(x) ELSE x IN
    IF InList(y, {"#0", "no", "off", "disable", "disabled", "false", "inactive"})
    THEN "False"
    ELSE IF InList(y, {"#1", "yes", "on", "enable", "enabled", "true", "active"})
    THEN "True"
    ELSE "ValueError"

\* ----------------------------------------------------------- PubSub methods

\* _meta_send_all without the loop over topic.children.
MetaSendAll_NoChildren(t, i, src_cbk) ==
    IF t[i].meta # None
    THEN TopicForward(t, i, t[i].topic \o <<"$">>, t[i].meta, "False", src_cbk, TRUE)
    ELSE <<>>

\* PubSub._meta_send_all from node i: the node's own metadata, then every
\* child's subtree in insertion order.
RECURSIVE MetaSendAll(_, _, _)
RECURSIVE MetaSendAllKids(_, _, _)
MetaSendAll(t, i, src_cbk) ==
    (IF t[i].meta # None
     THEN TopicForward(t, i, t[i].topic \o <<"$">>, t[i].meta, "False", src_cbk, TRUE)
     ELSE <<>>)
    \o MetaSendAllKids(t, ChildrenOf(t, i), src_cbk)

MetaSendAllKids(t, kids, src_cbk) ==
    IF Len(kids) = 0 THEN <<>>
    ELSE MetaSendAll(t, kids[1], src_cbk) \o MetaSendAllKids(t, Tail(kids), src_cbk)

\* What a public call leaves behind: the tree, the invocations it made, and
\* "ok" or the exception it raised.
Outcome(t, events, result) == [tree |-> t, events |-> events, result |-> result]

\* The '$' branch of PubSub.publish with its two statements swapped: the
\* request goes to the root first, the metadata after it.
PublishMetaAll_RequestFirst(t, topic, value, retain, src_cbk) ==
    LET f == TopicFind(t, TopicPrefix, TRUE) IN
    Outcome(f.tree,
            TopicForward(f.tree, 1, topic, None, retain, src_cbk, FALSE)
            \o MetaSendAll(f.tree, f.idx, src_cbk),
            "ok")

\* PubSub.publish, topic '$': the metadata of the engine's whole namespace,
\* then the request itself to the forward subscribers on the root.
PublishMetaAll(t, topic, value, retain, src_cbk) ==
    LET f == TopicFind(t, TopicPrefix, TRUE) IN
    Outcome(f.tree,
            MetaSendAll(f.tree, f.idx, src_cbk)
            \o TopicForward(f.tree, 1, topic, None, retain, src_cbk, FALSE),
            "ok")

\* PubSub.publish, topic ending in '/$': the metadata of a subtree of the
\* namespace, or the request relayed from the deepest existing node.
PublishMetaSubtree(t, topic, value, retain, src_cbk) ==
    IF StartsWith(topic, TopicPrefix)
    THEN LET f == TopicFind(t, topic, TRUE) IN
         Outcome(f.tree, MetaSendAll(f.tree, f.idx, src_cbk), "ok")
    ELSE Outcome(t, TopicForward(t, TopicFindExistingBase(t, topic), topic,
                                 None, retain, src_cbk, TRUE), "ok")

\* The '$' branch of PubSub.publish storing nothing on a write.
PublishMetaTopic_NoStore(t, topic, value, retain, src_cbk) ==
    LET f == TopicFind(t, SubSeq(topic, 1, Len(topic) - 1), TRUE) IN
    IF StartsWith(topic, TopicPrefix) /\ value = None
    THEN IF f.tree[f.idx].value # None
         THEN Outcome(f.tree,
                      TopicForward(f.tree, f.idx, topic, f.tree[f.idx].value,
                                   "True", src_cbk, TRUE), "ok")
         ELSE Outcome(f.tree, <<>>, "ok")
    ELSE Outcome(f.tree, TopicForward(f.tree, f.idx, topic, value, "True",
                                      src_cbk, TRUE), "ok")

\* The '$' branch of PubSub.publish without the test of the prefix: a write is
\* stored whatever the topic.
PublishMetaTopic_StoreOutside(t, topic, value, retain, src_cbk) ==
    LET f == TopicFind(t, SubSeq(topic, 1, Len(topic) - 1), TRUE) IN
    IF value = None
    THEN IF f.tree[f.idx].value # None
         THEN Outcome(f.tree,
                      TopicForward(f.tree, f.idx, topic, f.tree[f.idx].value,
                                   "True", src_cbk, TRUE), "ok")
         ELSE Outcome(f.tree, <<>>, "ok")
    ELSE LET t1 == [f.tree EXCEPT ![f.idx].meta = value] IN
         Outcome(t1, TopicForward(t1, f.idx, topic, value, "True", src_cbk, TRUE),
                 "ok")

\* PubSub.publish, any other topic ending in '$': the metadata of one topic,
\* read (value None) or written; what the read tests and sends is t.value.
PublishMetaTopic(t, topic, value, retain, src_cbk) ==
    LET f == TopicFind(t, SubSeq(topic, 1, Len(topic) - 1), TRUE) IN
    IF StartsWith(topic, TopicPrefix)
    THEN IF value = None
         THEN IF f.tree[f.idx].value # None
              THEN Outcome(f.tree,
                           TopicForward(f.tree, f.idx, topic, f.tree[f.idx].value,
                                        "True", src_cbk, TRUE), "ok")
              ELSE Outcome(f.tree, <<>>, "ok")
         ELSE LET t1 == [f.tree EXCEPT ![f.idx].meta = value] IN
              Outcome(t1, TopicForward(t1, f.idx, topic, value, "True", src_cbk,
                                       TRUE), "ok")
    ELSE Outcome(f.tree, TopicForward(f.tree, f.idx, topic, value, "True",
                                      src_cbk, TRUE), "ok")

\* PubSub.publish, any other topic: a value publish to the topic's node.
PublishValue(t, topic, value, retain, src_cbk) ==
    LET f == TopicFind(t, topic, TRUE)
        r == TopicPublish(f.tree, f.idx, value, retain, src_cbk)
    IN Outcome(r.tree, r.events, "ok")

\* The '?' branch of PubSub.publish missing: the topic is published to.
PublishQuery_AsValue(t, topic, value, retain, src_cbk) ==
    PublishValue(t, topic, value, retain, src_cbk)

\* PubSub.publish, topic ending in '?': pass
PublishQuery(t, topic, value, retain, src_cbk) == Outcome(t, <<>>, "ok")

\* PubSub.publish without the test for the empty topic, the suffix tests made
\* with endswith: the empty topic falls through to the value publish.
PubSubPublish_NoEmptyCheck(t, topic, value, retain, src_cbk) ==
    IF topic = <<"$">> THEN PublishMetaAll(t, topic, value, retain, src_cbk)
    ELSE IF EndsWith(topic, <<"/", "$">>)
    THEN PublishMetaSubtree(t, topic, value, retain, src_cbk)
    ELSE IF EndsWith(topic, <<"$">>)
    THEN PublishMetaTopic(t, topic, value, retain, src_cbk)
    ELSE IF EndsWith(topic, <<"?">>)
    THEN PublishQuery(t, topic, value, retain, src_cbk)
    ELSE PublishValue(t, topic, value, retain, src_cbk)

\* PubSub.publish
PubSubPublish(t, topic, value, retain, src_cbk) ==
    IF Len(topic) = 0 THEN Outcome(t, <<>>, "ValueError")
    ELSE IF topic = <<"$">> THEN PublishMetaAll(t, topic, value, retain, src_cbk)
    ELSE IF EndsWith(topic, <<"/", "$">>)
    THEN PublishMetaSubtree(t, topic, value, retain, src_cbk)
    ELSE IF topic[Len(topic)] = "$"
    THEN PublishMetaTopic(t, topic, value, retain, src_cbk)
    ELSE IF topic[Len(topic)] = "?"
    THEN PublishQuery(t, topic, value, retain, src_cbk)
    ELSE PublishValue(t, topic, value, retain, src_cbk)

\* PubSub.meta (topic not empty)
PubSubMeta(t, topic, meta) ==
    PubSubPublish(t, IF topic[Len(topic)] # "$" THEN topic \o <<"$">> ELSE topic,
                  meta, None, None)

\* The lookup of PubSub.get made with create=True.
PubSubGetFind_Create(t, topic) == TopicFind(t, topic, TRUE)

\* self._topic_find(topic, create=False) in PubSub.get
PubSubGetFind(t, topic) == TopicFind(t, topic, FALSE)

\* PubSub.get: the value returned, result "KeyError" when the topic has no node
PubSubGet(t, topic) ==
    LET f == PubSubGetFind(t, topic) IN
    IF f.idx = 0 THEN [result |-> "KeyError", ret |-> None]
    ELSE [result |-> "ok", ret |-> f.tree[f.idx].value]

\* PubSub.subscribe
PubSubSubscribe(t, topic, cbk, skip_retained, forward) ==
    LET f == TopicFind(t, topic, TRUE)
        r == TopicSubscribe(f.tree, f.idx, cbk, skip_retained, forward)
    IN Outcome(r.tree, r.events, r.result)

\* PubSub.unsubscribe
PubSubUnsubscribe(t, topic, cbk) ==
    LET f == TopicFind(t, topic, TRUE)
    IN Outcome(TopicUnsubscribe(f.tree, f.idx, cbk), <<>>, "ok")

\* PubSub.create without the test that the topic already has a node.
PubSubCreate_NoCheck(t, topic, meta, subscriber_cbk, skip_retained, forward) ==
    LET f == TopicFind(t, topic, TRUE)
        t1 == [f.tree EXCEPT ![f.idx].meta = meta]
        withDefault == meta # None /\ HasDefault(meta)
        retain == IF withDefault THEN AsBool(RetainOf(meta)) ELSE "False"
        p == IF withDefault
             THEN TopicPublish(t1, f.idx, DefaultOf(meta), retain, subscriber_cbk)
             ELSE [tree |-> t1, events |-> <<>>]
        s == IF subscriber_cbk # None
             THEN TopicSubscribe(p.tree, f.idx, subscriber_cbk, skip_retained, forward)
             ELSE [tree |-> p.tree, events |-> <<>>, result |-> "ok"]
    IN IF retain = "ValueError"
       THEN Outcome(t1, <<>>, "ValueError")
       ELSE Outcome(s.tree, p.events \o s.events, s.result)

\* PubSub.create publishing the default without naming subscriber_cbk as the
\* source.
PubSubCreate_NoExclusion(t, topic, meta, subscriber_cbk, skip_retained, forward) ==
    IF TopicFind(t, topic, FALSE).idx # 0 THEN Outcome(t, <<>>, "ValueError")
    ELSE
    LET f == TopicFind(t, topic, TRUE)
        t1 == [f.tree EXCEPT ![f.idx].meta = meta]
        withDefault == meta # None /\ HasDefault(meta)
        retain == IF withDefault THEN AsBool(RetainOf(meta)) ELSE "False"
        p == IF withDefault
             THEN TopicPublish(t1, f.idx, DefaultOf(meta), retain, None)
             ELSE [tree |-> t1, events |-> <<>>]
        s == IF subscriber_cbk # None
             THEN TopicSubscribe(p.tree, f.idx, subscriber_cbk, skip_retained, forward)
             ELSE [tree |-> p.tree, events |-> <<>>, result |-> "ok"]
    IN IF retain = "ValueError"
       THEN Outcome(t1, <<>>, "ValueError")
       ELSE Outcome(s.tree, p.events \o s.events, s.result)

\* PubSub.create
PubSubCreate(t, topic, meta, subscriber_cbk, skip_retained, forward) ==
    IF TopicFind(t, topic, FALSE).idx # 0 THEN Outcome(t, <<>>, "ValueError")
    ELSE
    LET f == TopicFind(t, topic, TRUE)
        t1 == [f.tree EXCEPT ![f.idx].meta = meta]
        withDefault == meta # None /\ HasDefault(meta)
        retain == IF withDefault THEN AsBool(RetainOf(meta)) ELSE "False"
        p == IF withDefault
             THEN TopicPublish(t1, f.idx, DefaultOf(meta), retain, subscriber_cbk)
             ELSE [tree |-> t1, events |-> <<>>]
        s == IF subscriber_cbk # None
             THEN TopicSubscribe(p.tree, f.idx, subscriber_cbk, skip_retained, forward)
             ELSE [tree |-> p.tree, events |-> <<>>, result |-> "ok"]
    IN IF retain = "ValueError"
       THEN Outcome(t1, <<>>, "ValueError")
       ELSE Outcome(s.tree, p.events \o s.events, s.result)

\* ------------------------------------------------------------ the calls

\* The record of one public call.
Call(op, topic, value, retain, src_cbk, cbk, skip_retained, forward, out, ret) ==
    [op |-> op, topic |-> topic, value |-> value, retain |-> retain,
     src_cbk |-> src_cbk, cbk |-> cbk, skip_retained |-> skip_retained,
     forward |-> forward, result |-> out.result, ret |-> ret,
     events |-> out.events]

\* The callbacks (sub1_fn, sub2_fn of the tests), the payloads and the
\* arguments the calls are made with.
Callbacks == {"c1", "c2"}
Values == {None, "v1", "v2"}
Retains == {None, "True"}
SrcCbks == {None, "c1"}
ValueTopics == {T_a, T_ab}
NodeTopics == {T_root, T_a, T_ab}
\* Topics outside the namespace TopicPrefix, as 'other' in the tests.
OtherTopics == {T_b, T_bc}
\* subscribe(..., forward=...): sub1_fn is registered as an ordinary subscriber,
\* sub2_fn as a forward subscriber.
ForwardOf(cbk) == cbk = "c2"

\* PubSub(): a root node and nothing else, with calls calls to come.
\* The threads that call a function wrapped by Resync.wrap.
Producers == {"t1", "t2"}

\* No thread inside _resync_handle, no event posted, and no Value built yet.
UiIdle ==
    /\ pc = [th \in Producers |-> [at |-> "idle", ev |-> 0]]
    /\ posted = <<>>
    /\ ran = <<>>
    /\ enq = <<>>
    /\ widget = [value |-> None, index |-> 0]

Fresh(calls) ==
    /\ tree = <<NewTopic(<<>>)>>
    /\ pre = tree
    /\ last = Call("init", <<>>, None, None, None, None, FALSE, FALSE,
                   Outcome(tree, <<>>, "ok"), None)
    /\ budget = calls
    /\ inner = <<NewTopic(<<>>)>>
    /\ resync = <<>>
    /\ relayed = <<>>
    /\ UiIdle

Init == Fresh(MaxOps)

InitValue == Fresh(MaxValueOps)

Publish(topic, value, retain, src_cbk) ==
    /\ budget > 0
    /\ LET out == PubSubPublish(tree, topic, value, retain, src_cbk) IN
        /\ tree' = out.tree
        /\ last' = Call("publish", topic, value, retain, src_cbk, None, FALSE,
                        FALSE, out, None)
    /\ pre' = tree
    /\ budget' = budget - 1
    /\ UNCHANGED bridge

Meta(topic, meta) ==
    /\ budget > 0
    /\ LET out == PubSubMeta(tree, topic, meta) IN
        /\ tree' = out.tree
        /\ last' = Call("meta", topic, meta, None, None, None, FALSE, FALSE, out,
                        None)
    /\ pre' = tree
    /\ budget' = budget - 1
    /\ UNCHANGED bridge

Get(topic) ==
    /\ budget > 0
    /\ LET g == PubSubGet(tree, topic) IN
        /\ tree' = PubSubGetFind(tree, topic).tree
        /\ last' = Call("get", topic, None, None, None, None, FALSE, FALSE,
                        Outcome(tree, <<>>, g.result), g.ret)
    /\ pre' = tree
    /\ budget' = budget - 1
    /\ UNCHANGED bridge

Subscribe(topic, cbk, skip_retained, forward) ==
    /\ budget > 0
    /\ LET out == PubSubSubscribe(tree, topic, cbk, skip_retained, forward) IN
        /\ tree' = out.tree
        /\ last' = Call("subscribe", topic, None, None, None, cbk, skip_retained,
                        forward, out, None)
    /\ pre' = tree
    /\ budget' = budget - 1
    /\ UNCHANGED bridge

Unsubscribe(topic, cbk) ==
    /\ budget > 0
    /\ LET out == PubSubUnsubscribe(tree, topic, cbk) IN
        /\ tree' = out.tree
        /\ last' = Call("unsubscribe", topic, None, None, None, cbk, FALSE, FALSE,
                        out, None)
    /\ pre' = tree
    /\ budget' = budget - 1
    /\ UNCHANGED bridge

Create(topic, meta, subscriber_cbk, skip_retained, forward) ==
    /\ budget > 0
    /\ LET out == PubSubCreate(tree, topic, meta, subscriber_cbk, skip_retained,
                               forward) IN
        /\ tree' = out.tree
        /\ last' = Call("create", topic, meta, None, None, subscriber_cbk,
                        skip_retained, forward, out, None)
    /\ pre' = tree
    /\ budget' = budget - 1
    /\ UNCHANGED bridge

\* The calls of one test run: value publishes, metadata requests, meta,
\* get, subscribe, unsubscribe and create.
Next ==
    \/ \E topic \in ValueTopics, value \in Values, retain \in Retains,
          src_cbk \in SrcCbks : Publish(topic, value, retain, src_cbk)
    \/ \E topic \in {<<"$">>} \cup {o \o <<"/", "$">> : o \in OtherTopics},
          src_cbk \in {None, "c2"} : Publish(topic, None, None, src_cbk)
    \/ \E topic \in {T_ab, T_b} : Meta(topic, "M1")
    \/ \E topic \in NodeTopics : Get(topic)
    \/ \E topic \in NodeTopics \cup {T_b}, cbk \in Callbacks,
          skip_retained \in BOOLEAN :
          Subscribe(topic, cbk, skip_retained, ForwardOf(cbk))
    \/ \E topic \in NodeTopics, cbk \in Callbacks : Unsubscribe(topic, cbk)
    \/ \E topic \in ValueTopics, meta \in {None, "MD1"} :
          Create(topic, meta, None, FALSE, FALSE)
    \/ Create(T_b, "M1", None, FALSE, FALSE)

Spec == Init /\ [][Next]_vars

\* The value layer alone, one call deeper: value publishes, subscribe,
\* unsubscribe and get.
NextValue ==
    \/ \E topic \in ValueTopics, value \in Values, retain \in Retains,
          src_cbk \in SrcCbks : Publish(topic, value, retain, src_cbk)
    \/ \E topic \in NodeTopics, cbk \in Callbacks, skip_retained \in BOOLEAN :
          Subscribe(topic, cbk, skip_retained, ForwardOf(cbk))
    \/ \E topic \in NodeTopics, cbk \in Callbacks : Unsubscribe(topic, cbk)
    \/ \E topic \in NodeTopics : Get(topic)

SpecValue == InitValue /\ [][NextValue]_vars

\* Number of public calls in one run of SpecProtocol.
MaxProtocolOps == 4

\* Topics of the '?' form: the bare query, one topic's, one subtree's.
QueryTopics == {<<"?">>, T_ab \o <<"?">>, T_a \o <<"/", "?">>}

\* Metadata payloads written with publish(T + '$', M).
Metas == {"M1", "M2"}

\* Something that is not callable, given to subscribe as the callback.
NotCallable == "#0"

InitProtocol == Fresh(MaxProtocolOps)

\* The calls around the topic suffixes and the errors: metadata of one
\* topic written and read, the '$' request, value publishes, the '?' form, the
\* empty topic,
\* subscribe with and without a callable, create with a descriptor, get.
NextProtocol ==
    \/ \E value \in {None, "v1"}, retain \in Retains :
          Publish(T_ab, value, retain, None)
    \/ \E value \in Metas \cup {None}, src_cbk \in {None, "c2"} :
          Publish(T_ab \o <<"$">>, value, None, src_cbk)
    \/ Publish(<<"$">>, None, None, None)
    \/ \E topic \in {T_a, T_b} : Publish(topic \o <<"/", "$">>, None, None, None)
    \/ \E retain \in Retains : Publish(<<>>, "v1", retain, None)
    \/ \E topic \in QueryTopics, retain \in Retains :
          Publish(topic, "v1", retain, None)
    \/ \E topic \in {T_root, T_ab}, cbk \in Callbacks :
          Subscribe(topic, cbk, FALSE, ForwardOf(cbk))
    \/ \E topic \in {T_ab, T_b} : Subscribe(topic, NotCallable, FALSE, FALSE)
    \/ \E meta \in {"MD1", "MDX"} : Create(T_ab, meta, None, FALSE, FALSE)
    \/ \E topic \in {T_ab, T_b} : Get(topic)

SpecProtocol == InitProtocol /\ [][NextProtocol]_vars

\* Number of public calls in one run of SpecPath.
MaxPathOps == 3

\* Topics written with a leading '/'.
SlashTopics == {<<"/">> \o T_ab}

\* Strings over '/', '$' and '?' put behind a topic, and topics made of
\* nothing else.
Suffixes == {<<"/">>, <<"$">>, <<"?">>, <<"/", "$">>, <<"$", "?", "/">>,
             <<"?", "$">>}
SuffixOnlyTopics == {<<>>, <<"/">>, <<"$">>, <<"?", "/", "$">>}

InitPath == Fresh(MaxPathOps)

\* The calls around the way topics are written: retained publishes (to the
\* root too), subscribe and get on topics with a leading '/', with trailing
\* '/', '$', '?', and on topics made only of those.
NextPath ==
    \/ \E topic \in {T_ab, <<"/">>} \cup SlashTopics, value \in {"v1", "v2"} :
          Publish(topic, value, "True", None)
    \/ \E topic \in {T_ab} \cup SlashTopics, s \in Suffixes \cup {<<>>} :
          Subscribe(topic \o s, "c1", FALSE, FALSE)
    \/ \E topic \in {T_ab} \cup SlashTopics, s \in Suffixes \cup {<<>>} :
          Get(topic \o s)
    \/ \E topic \in SuffixOnlyTopics : Get(topic)

SpecPath == InitPath /\ [][NextPath]_vars

\* Number of public calls in one run of SpecCreate.
MaxCreateOps == 3

\* The descriptors handed to create.
CreateMetas == RetainFlags \cup {"M1", "MDN", "MN0", "MN1"}

InitCreate == Fresh(MaxCreateOps)

\* The calls around create: subscribers above the topic, create with each
\* descriptor, get.
NextCreate ==
    \/ \E topic \in {T_root, T_a} : Subscribe(topic, "c1", TRUE, FALSE)
    \/ \E meta \in CreateMetas : Create(T_ab, meta, None, FALSE, FALSE)
    \/ Get(T_ab)

SpecCreate == InitCreate /\ [][NextCreate]_vars

\* Number of public calls in one run of SpecCreateSubscriber.
MaxCreateSubscriberOps == 3

InitCreateSubscriber == Fresh(MaxCreateSubscriberOps)

\* The calls around create with a callback: subscribers above the topic, the
\* callback itself among them, then create with a default that is retained or
\* not, None or not, and get.
NextCreateSubscriber ==
    \/ \E topic \in {T_root, T_a}, cbk \in Callbacks :
          Subscribe(topic, cbk, TRUE, FALSE)
    \/ \E meta \in {"M1", "MD1", "MDN", "MN1"}, cbk \in Callbacks,
          skip_retained \in BOOLEAN :
          Create(T_ab, meta, cbk, skip_retained, FALSE)
    \/ Get(T_ab)

SpecCreateSubscriber == InitCreateSubscriber /\ [][NextCreateSubscriber]_vars

\* -------------------------------------------- callbacks that call the PubSub

\* Number of public calls in one run of SpecReentrant.
MaxReentrantOps == 3

\* The callbacks of SpecReentrant: "c1" and "c2" only record; "r_pub", handed
\* the value "v1", publishes "v2" retained to the topic it was handed; "r_sub",
\* handed "v1", subscribes "c2" to that topic.  (SpecUnsubscribe has "r_unsub",
\* which unsubscribes itself from the topic it is handed.)
ReentrantCallbacks == {"c1", "r_pub", "r_sub"}

\* One invocation subscriber(topic, value, retain); cause is the position, in
\* the invocations of the running public call, of the invocation whose callback
\* made the call this one belongs to, 0 for the public call itself.
Invocation(cbk, topic, value, retain, cause) ==
    [cbk |-> cbk, topic |-> topic, value |-> value, retain |-> retain,
     cause |-> cause]

\* The state a call runs on: the tree and the invocations made so far.
Running(t, events) == [tree |-> t, events |-> events]

RECURSIVE RunCallback(_, _, _, _, _)
RECURSIVE NotifyLive_Deferred(_, _, _, _, _, _, _, _)
RECURSIVE NotifyLive(_, _, _, _, _, _, _, _)
RECURSIVE PublishLive(_, _, _, _, _)
RECURSIVE ReplayLive(_, _, _, _)
RECURSIVE ReplayLiveAll(_, _, _, _)
RECURSIVE SubscribeLive(_, _, _, _, _, _)

\* PubSub.unsubscribe called from inside a callback.
UnsubscribeLive(st, topic, cbk) ==
    Running(PubSubUnsubscribe(st.tree, topic, cbk).tree, st.events)

\* subscriber(topic, value, retain) entered: the invocation is recorded.
Enter(st, cause, cbk, topic, value, retain) ==
    [st EXCEPT !.events = Append(@, Invocation(cbk, topic, value, retain, cause))]

\* The body of callback cbk, run as invocation number k.
RunCallback(st, k, cbk, topic, value) ==
    CASE cbk = "r_pub" /\ value = "v1" -> PublishLive(st, k, topic, "v2", "True")
      [] cbk = "r_sub" /\ value = "v1" ->
            SubscribeLive(st, k, topic, "c2", FALSE, FALSE)
      [] cbk = "r_unsub" -> UnsubscribeLive(st, topic, "r_unsub")
      [] OTHER -> st

\* subscriber(topic, value, retain): a Python call, which returns when the body
\* of the callback has returned.
InvokeLive(st, cause, cbk, topic, value, retain) ==
    LET entered == Enter(st, cause, cbk, topic, value, retain)
    IN RunCallback(entered, Len(entered.events), cbk, topic, value)

\* The loops of _Topic.publish with every call a callback makes put off until
\* the loops are over.
NotifyLive_Deferred(st, cause, self, cur, j, x, retain, src_cbk) ==
    IF cur = 0 THEN st
    ELSE IF j > Len(st.tree[cur].subscribers)
    THEN NotifyLive_Deferred(st, cause, self, ParentOf(st.tree, cur), 1, x, retain,
                             src_cbk)
    ELSE IF st.tree[cur].subscribers[j].cbk = src_cbk
    THEN NotifyLive_Deferred(st, cause, self, cur, j + 1, x, retain, src_cbk)
    ELSE LET cbk == st.tree[cur].subscribers[j].cbk
             entered == Enter(st, cause, cbk, st.tree[self].topic, x, retain)
         IN RunCallback(
                NotifyLive_Deferred(entered, cause, self, cur, j + 1, x, retain,
                                    src_cbk),
                Len(entered.events), cbk, st.tree[self].topic, x)

\* The loops of _Topic.publish on node self, standing at position j of the
\* subscriber list of node cur: the for loop reads the list as it is when each
\* position is reached, and each subscriber call runs to its return before the
\* next position is read.
NotifyLive(st, cause, self, cur, j, x, retain, src_cbk) ==
    IF cur = 0 THEN st
    ELSE IF j > Len(st.tree[cur].subscribers)
    THEN NotifyLive(st, cause, self, ParentOf(st.tree, cur), 1, x, retain, src_cbk)
    ELSE IF st.tree[cur].subscribers[j].cbk = src_cbk
    THEN NotifyLive(st, cause, self, cur, j + 1, x, retain, src_cbk)
    ELSE NotifyLive(InvokeLive(st, cause, st.tree[cur].subscribers[j].cbk,
                               st.tree[self].topic, x, retain),
                    cause, self, cur, j + 1, x, retain, src_cbk)

\* PubSub.publish of a value to an ordinary topic and the _Topic.publish it
\* calls, made from the call numbered cause.
PublishLive(st, cause, topic, x, retain) ==
    LET f == TopicFind(st.tree, topic, TRUE) IN
    IF retain = "True"
    THEN IF f.tree[f.idx].value = x
         THEN Running(f.tree, st.events)
         ELSE NotifyLive(Running([f.tree EXCEPT ![f.idx].value = x], st.events),
                         cause, f.idx, f.idx, 1, x, retain, None)
    ELSE NotifyLive(Running([f.tree EXCEPT ![f.idx].value = None], st.events),
                    cause, f.idx, f.idx, 1, x, retain, None)

\* _Topic._publish_new_subscriber on node i, the value read when the children
\* are done.
ReplayLive(st, cause, i, cbk) ==
    LET kids == ReplayLiveAll(st, cause, ChildrenOf(st.tree, i), cbk) IN
    IF kids.tree[i].value # None
    THEN InvokeLive(kids, cause, cbk, kids.tree[i].topic, kids.tree[i].value, None)
    ELSE kids

ReplayLiveAll(st, cause, kids, cbk) ==
    IF Len(kids) = 0 THEN st
    ELSE ReplayLiveAll(ReplayLive(st, cause, kids[1], cbk), cause, Tail(kids), cbk)

\* PubSub.subscribe of a callable and the _Topic.subscribe it calls, made from
\* the call numbered cause.
SubscribeLive(st, cause, topic, cbk, skip_retained, forward) ==
    LET f == TopicFind(st.tree, topic, TRUE)
        t1 == [f.tree EXCEPT ![f.idx].subscribers =
                  Append(@, [cbk |-> cbk, forward |-> forward])]
    IN IF skip_retained THEN Running(t1, st.events)
       ELSE ReplayLive(Running(t1, st.events), cause, f.idx, cbk)

InitReentrant == Fresh(MaxReentrantOps)

\* publish(topic, value, retain) with callbacks that call the PubSub
PublishReentrant(topic, value, retain) ==
    /\ budget > 0
    /\ LET st == PublishLive(Running(tree, <<>>), 0, topic, value, retain) IN
        /\ tree' = st.tree
        /\ last' = Call("publish", topic, value, retain, None, None, FALSE, FALSE,
                        Outcome(st.tree, st.events, "ok"), None)
    /\ pre' = tree
    /\ budget' = budget - 1
    /\ UNCHANGED bridge

\* subscribe(topic, cbk, skip_retained) with callbacks that call the PubSub
SubscribeReentrant(topic, cbk, skip_retained) ==
    /\ budget > 0
    /\ LET st == SubscribeLive(Running(tree, <<>>), 0, topic, cbk, skip_retained,
                               FALSE) IN
        /\ tree' = st.tree
        /\ last' = Call("subscribe", topic, None, None, None, cbk, skip_retained,
                        FALSE, Outcome(st.tree, st.events, "ok"), None)
    /\ pre' = tree
    /\ budget' = budget - 1
    /\ UNCHANGED bridge

\* The calls of a run with callbacks that publish and subscribe.
NextReentrant ==
    \/ \E value \in {"v1", "v2"}, retain \in Retains :
          PublishReentrant(T_ab, value, retain)
    \/ \E topic \in {T_a, T_ab}, cbk \in ReentrantCallbacks,
          skip_retained \in BOOLEAN :
          SubscribeReentrant(topic, cbk, skip_retained)

SpecReentrant == InitReentrant /\ [][NextReentrant]_vars

\* Number of public calls in one run of SpecUnsubscribe.
MaxUnsubscribeOps == 3

InitUnsubscribe == Fresh(MaxUnsubscribeOps)

\* The calls of a run with a callback that unsubscribes itself while it is
\* being notified.
NextUnsubscribe ==
    \/ \E value \in {"v1", "v2"}, retain \in Retains :
          PublishReentrant(T_ab, value, retain)
    \/ \E topic \in {T_a, T_ab}, cbk \in {"c1", "c2", "r_unsub"},
          skip_retained \in BOOLEAN :
          SubscribeReentrant(topic, cbk, skip_retained)

SpecUnsubscribe == InitUnsubscribe /\ [][NextUnsubscribe]_vars

\* ------------------------------------------------- metadata on several nodes

\* Number of public calls in one run of SpecMeta.
MaxMetaOps == 4

InitMeta == Fresh(MaxMetaOps)

\* The calls around the metadata requests: metadata written to the namespace
\* root and below it, a node outside the namespace created with metadata,
\* forward and ordinary subscribers, and the requests '$', 'a/$', 'a/b/$'.
NextMeta ==
    \/ \E topic \in {T_a, T_ab}, meta \in Metas :
          Publish(topic \o <<"$">>, meta, None, None)
    \/ Create(T_b, "M1", None, FALSE, FALSE)
    \/ \E topic \in {T_root, T_ab}, cbk \in Callbacks :
          Subscribe(topic, cbk, FALSE, ForwardOf(cbk))
    \/ \E topic \in {<<"$">>, T_a \o <<"/", "$">>, T_ab \o <<"/", "$">>},
          src_cbk \in {None, "c2"} : Publish(topic, None, None, src_cbk)

SpecMeta == InitMeta /\ [][NextMeta]_vars

\* Number of public calls in one run of SpecOutside.
MaxOutsideOps == 3

\* A topic that starts with the characters of the prefix without being the
\* prefix or below it: 'helloworld/x' for the prefix 'hello'.
T_abx == <<"a", "b", "/", "x">>

InitOutside == Fresh(MaxOutsideOps)

\* The calls around the metadata of topics outside the namespace: a node
\* outside created with metadata, a value retained there, subscribers on it and
\* on the root, metadata of 'b' and 'b/c' written and read, and metadata
\* written and requested under 'ab', which only starts like the prefix.
NextOutside ==
    \/ Create(T_b, "M1", None, FALSE, FALSE)
    \/ Publish(T_b, "v1", "True", None)
    \/ \E topic \in {T_root, T_b}, cbk \in Callbacks :
          Subscribe(topic, cbk, FALSE, ForwardOf(cbk))
    \/ \E topic \in OtherTopics, value \in Metas \cup {None},
          src_cbk \in {None, "c2"} :
          Publish(topic \o <<"$">>, value, None, src_cbk)
    \/ \E value \in Metas : Publish(T_abx \o <<"$">>, value, None, None)
    \/ Publish(<<"a", "b", "/", "$">>, None, None, None)

SpecOutside == InitOutside /\ [][NextOutside]_vars

\* ------------------------------------------------------------- the Device

\* Number of publishes (on either side of the Device) in one run of SpecBridge.
MaxBridgeOps == 3

\* Device(parent, pubsub, dev): dev is the topic the Device is subscribed to in
\* the application's engine, dev + '/' the prefix of the topics it relays.
Dev == T_b
DevicePrefix == Dev \o <<"/">>

\* The two relay callbacks of a Device: _subscribe_parent is registered in
\* the application's engine, _on_device_publish (the Resync wrapper around
\* _subscribe_device) is the subscriber handed to Comm.
SubscribeParentCbk == "_subscribe_parent"
OnDevicePublishCbk == "_on_device_publish"

\* The topics published on the device side, and the same below the prefix.
T_c == <<"c">>
T_cd == <<"c", "/", "d">>
DeviceTopics == {T_c, T_cd}
\* The values published across the Device.
BridgeValues == {"v1", "v2"}

\* Comm.publish(topic, value, retain, src_cbk), the engine on the device side:
\* an engine like PubSub, to whose root the subscriber given to Comm is
\* subscribed.  The tree afterwards and the invocations of the subscriber.
CommPublish(inn, topic, value, retain, src_cbk) ==
    LET f == TopicFind(inn, topic, TRUE)
    IN TopicPublish(f.tree, f.idx, value, retain, src_cbk)

\* Resync._resync_handle for each invocation of the wrapper: the call of
\* _subscribe_device is queued with its arguments.
Queued(events) ==
    [k \in 1..Len(events) |->
        [topic |-> events[k].topic, value |-> events[k].value,
         retain |-> events[k].retain]]

\* Device._subscribe_parent(topic, value, retain) with the Device in state
\* b = [inner, resync, relayed]: a topic below the prefix is published, prefix
\* stripped, on the device side with _on_device_publish as the source.
SubscribeParent(b, topic, value, retain) ==
    IF StartsWith(topic, DevicePrefix)
    THEN LET t == SubSeq(topic, Len(DevicePrefix) + 1, Len(topic))
             r == CommPublish(b.inner, t, value, retain, OnDevicePublishCbk)
         IN [inner |-> r.tree,
             resync |-> b.resync \o Queued(r.events),
             relayed |-> Append(b.relayed,
                                [topic |-> t, value |-> value, retain |-> retain])]
    ELSE b

\* The invocations of _subscribe_parent among the events of one call of the
\* application's engine, made in order.
RECURSIVE RelayAll(_, _)
RelayAll(b, events) ==
    IF Len(events) = 0 THEN b
    ELSE LET e == Head(events) IN
         RelayAll(IF e.cbk = SubscribeParentCbk
                  THEN SubscribeParent(b, e.topic, e.value, e.retain)
                  ELSE b,
                  Tail(events))

\* Device._subscribe_device publishing under the topic as the device names it.
SubscribeDevice_NoPrefix(t, topic, value, retain) ==
    PubSubPublish(t, topic, value, retain, SubscribeParentCbk)

\* Device._subscribe_device publishing without naming _subscribe_parent as
\* the source.
SubscribeDevice_NoSource(t, topic, value, retain) ==
    PubSubPublish(t, DevicePrefix \o topic, value, retain, None)

\* Device._subscribe_device(topic, value, retain): published under the prefix
\* in the application's engine with _subscribe_parent as the source.
SubscribeDevice(t, topic, value, retain) ==
    PubSubPublish(t, DevicePrefix \o topic, value, retain, SubscribeParentCbk)

\* Device.__init__ and Device.open on a new engine: _subscribe_parent is a
\* forward subscriber on dev, _on_device_publish the subscriber of Comm.
InitBridge ==
    /\ tree = PubSubSubscribe(<<NewTopic(<<>>)>>, Dev, SubscribeParentCbk, FALSE,
                              TRUE).tree
    /\ pre = tree
    /\ last = Call("init", <<>>, None, None, None, None, FALSE, FALSE,
                   Outcome(tree, <<>>, "ok"), None)
    /\ budget = MaxBridgeOps
    /\ inner = <<[NewTopic(<<>>) EXCEPT !.subscribers =
                     <<[cbk |-> OnDevicePublishCbk, forward |-> FALSE]>>]>>
    /\ resync = <<>>
    /\ relayed = <<>>
    /\ UiIdle

\* Device.publish(topic, value, retain, src_cbk): a publish under the prefix in
\* the application's engine, with the relaying _subscribe_parent does.
DevicePublish(topic, value, retain, src_cbk) ==
    /\ budget > 0
    /\ LET out == PubSubPublish(tree, DevicePrefix \o topic, value, retain, src_cbk)
           b == RelayAll([inner |-> inner, resync |-> resync, relayed |-> <<>>],
                         out.events)
       IN /\ tree' = out.tree
          /\ last' = Call("publish", DevicePrefix \o topic, value, retain, src_cbk,
                          None, FALSE, FALSE, out, None)
          /\ inner' = b.inner
          /\ resync' = b.resync
          /\ relayed' = b.relayed
    /\ pre' = tree
    /\ budget' = budget - 1
    /\ UNCHANGED <<threads, widget>>

\* The device side publishes: its engine delivers to _on_device_publish, which
\* queues the call of _subscribe_device.
DeviceSidePublish(topic, value, retain) ==
    /\ budget > 0
    /\ LET r == CommPublish(inner, topic, value, retain, None) IN
          /\ inner' = r.tree
          /\ resync' = resync \o Queued(r.events)
          /\ last' = Call("comm.publish", topic, value, retain, None, None, FALSE,
                          FALSE, Outcome(tree, r.events, "ok"), None)
    /\ relayed' = <<>>
    /\ tree' = tree
    /\ pre' = tree
    /\ budget' = budget - 1
    /\ UNCHANGED <<threads, widget>>

\* Resync.event: the oldest queued call of _subscribe_device is made, on the
\* thread of the application's engine.
ResyncEvent ==
    /\ resync # <<>>
    /\ LET c == Head(resync)
           out == SubscribeDevice(tree, c.topic, c.value, c.retain)
           b == RelayAll([inner |-> inner, resync |-> Tail(resync),
                          relayed |-> <<>>], out.events)
       IN /\ tree' = out.tree
          /\ last' = Call("_subscribe_device", c.topic, c.value, c.retain,
                          SubscribeParentCbk, None, FALSE, FALSE, out, None)
          /\ inner' = b.inner
          /\ resync' = b.resync
          /\ relayed' = b.relayed
    /\ pre' = tree
    /\ UNCHANGED budget
    /\ UNCHANGED <<threads, widget>>

\* An application with one open Device: publishes on both sides, the queued
\* relays, and a user interface subscribing to and reading the relayed topics.
NextBridge ==
    \/ \E topic \in DeviceTopics, value \in BridgeValues, retain \in Retains,
          src_cbk \in SrcCbks : DevicePublish(topic, value, retain, src_cbk)
    \/ \E topic \in DeviceTopics, value \in BridgeValues, retain \in Retains :
          DeviceSidePublish(topic, value, retain)
    \/ ResyncEvent
    \/ \E topic \in {T_root, DevicePrefix \o T_c} :
          Subscribe(topic, "c1", TRUE, FALSE)
    \/ \E topic \in DeviceTopics : Get(DevicePrefix \o topic)

SpecBridge == InitBridge /\ [][NextBridge]_vars

\* Number of calls in one run of SpecWidget.
MaxWidgetOps == 3

\* The closure src_cbk_fn that Device.subscribe makes around cbk and registers
\* in the application's engine: a callable of its own, not equal to cbk.
SrcCbkFn(cbk) ==
    CASE cbk = "c1" -> "src_cbk_fn(c1)"
      [] cbk = "c2" -> "src_cbk_fn(c2)"

\* The body of src_cbk_fn for each invocation among events: a topic below the
\* prefix is handed, prefix stripped, to the wrapped cbk.
SrcCbkFnCalls(events) ==
    LET hit == SelectSeq(events, LAMBDA e :
                   /\ \E c \in Callbacks : e.cbk = SrcCbkFn(c)
                   /\ StartsWith(e.topic, DevicePrefix))
    IN [k \in 1..Len(hit) |->
          Event(CHOOSE c \in Callbacks : hit[k].cbk = SrcCbkFn(c),
                SubSeq(hit[k].topic, Len(DevicePrefix) + 1, Len(hit[k].topic)),
                hit[k].value, hit[k].retain)]

InitWidget ==
    /\ tree = PubSubSubscribe(<<NewTopic(<<>>)>>, Dev, SubscribeParentCbk, FALSE,
                              TRUE).tree
    /\ pre = tree
    /\ last = Call("init", <<>>, None, None, None, None, FALSE, FALSE,
                   Outcome(tree, <<>>, "ok"), None)
    /\ budget = MaxWidgetOps
    /\ inner = <<[NewTopic(<<>>) EXCEPT !.subscribers =
                     <<[cbk |-> OnDevicePublishCbk, forward |-> FALSE]>>]>>
    /\ resync = <<>>
    /\ relayed = <<>>
    /\ UiIdle

\* Device.subscribe(topic, cbk, skip_retained, forward): src_cbk_fn is
\* subscribed under the prefix; the call record keeps cbk.
DeviceSubscribe(topic, cbk, skip_retained, forward) ==
    /\ budget > 0
    /\ LET out == PubSubSubscribe(tree, DevicePrefix \o topic, SrcCbkFn(cbk),
                                  skip_retained, forward) IN
        /\ tree' = out.tree
        /\ last' = Call("subscribe", DevicePrefix \o topic, None, None, None, cbk,
                        skip_retained, forward, out, None)
    /\ pre' = tree
    /\ budget' = budget - 1
    /\ UNCHANGED bridge

\* A user interface on one Device: PubSubWidget subscribes its _on_update
\* ("c1") through the Device and publishes through it naming _on_update as
\* the source; another widget ("c2") does the same.
NextWidget ==
    \/ \E topic \in {<<>>, T_c}, cbk \in Callbacks, skip_retained \in BOOLEAN :
          DeviceSubscribe(topic, cbk, skip_retained, TRUE)
    \/ \E topic \in DeviceTopics, value \in BridgeValues, retain \in Retains,
          src_cbk \in SrcCbks : DevicePublish(topic, value, retain, src_cbk)

SpecWidget == InitWidget /\ [][NextWidget]_vars

\* ------------------------------------------------------ Resync, step by step

\* Number of calls of a wrapped function in one run of SpecResync.
MaxResyncCalls == 3

\* queue.Queue.get taking the newest entry.
QueueGet_Last(q) == [item |-> q[Len(q)], rest |-> SubSeq(q, 1, Len(q) - 1)]

\* queue.Queue.get on a queue that is not empty: the oldest entry
QueueGet(q) == [item |-> Head(q), rest |-> Tail(q)]

InitResync == Fresh(MaxResyncCalls)

\* Resync._resync_handle up to the put, on thread th: the call (fn, args,
\* kwargs) and its new _ResyncEvent go on the queue; raises says whether the
\* target will raise when it is called.
ResyncHandlePut(th, raises) ==
    /\ budget > 0
    /\ pc[th].at = "idle"
    /\ LET n == Len(enq) + 1
           fn == [id |-> n, thread |-> th, raises |-> raises]
       IN /\ resync' = Append(resync, [fn |-> fn, ev |-> n])
          /\ enq' = Append(enq, fn)
          /\ pc' = [pc EXCEPT ![th] = [at |-> "post", ev |-> n]]
    /\ budget' = budget - 1
    /\ UNCHANGED <<tree, last, pre, inner, relayed, posted, ran, widget>>

\* Resync._resync_handle, QCoreApplication.postEvent(self, event), on thread th
ResyncHandlePost(th) ==
    /\ pc[th].at = "post"
    /\ posted' = Append(posted, pc[th].ev)
    /\ pc' = [pc EXCEPT ![th] = [at |-> "idle", ev |-> 0]]
    /\ UNCHANGED <<tree, last, pre, budget, inner, resync, relayed, ran, enq,
                   widget>>

\* Resync.event on the event thread, for the oldest posted _ResyncEvent: one
\* entry is taken from the queue and called; Empty and the exceptions of the
\* call are logged.
EventThread ==
    /\ posted # <<>>
    /\ posted' = Tail(posted)
    /\ IF resync = <<>>
       THEN /\ ran' = Append(ran, [fn |-> None, ev |-> Head(posted),
                                   mismatch |-> FALSE, outcome |-> "Empty"])
            /\ resync' = resync
       ELSE LET g == QueueGet(resync) IN
            /\ ran' = Append(ran, [fn |-> g.item.fn, ev |-> Head(posted),
                                   mismatch |-> g.item.ev # Head(posted),
                                   outcome |-> IF g.item.fn.raises
                                               THEN "exception logged"
                                               ELSE "returned"])
            /\ resync' = g.rest
    /\ UNCHANGED <<tree, last, pre, budget, inner, relayed, pc, enq, widget>>

\* Producer threads calling the wrapped function, and the Qt event loop.
NextResync ==
    \/ \E th \in Producers, raises \in BOOLEAN : ResyncHandlePut(th, raises)
    \/ \E th \in Producers : ResyncHandlePost(th)
    \/ EventThread

SpecResync == InitResync /\ [][NextResync]_vars

\* ------------------------------------------------ Value of the device widget

\* Number of assignments to Value.value in one run of SpecOptions.
MaxSetOps == 12

\* meta['options'] of the topic as Value.__init__ keeps it in self._options:
\* (value, display string) pairs.
Options == <<<<"v1", "one">>, <<"v2", "two">>, <<"v3", "three">>>>

\* What is assigned: option values, display strings, and values that are no
\* option.
Assigned == {"v1", "v2", "v3", "one", "two", "v4", "v5"}

\* Value._find_option_idx: the position of the first option holding x, 0 when
\* it raises RuntimeError (option not found)
FindOptionIdx(options, x) ==
    LET hits == {idx \in 1..Len(options) :
                    \E j \in 1..Len(options[idx]) : options[idx][j] = x}
    IN IF hits = {} THEN 0
       ELSE CHOOSE idx \in hits : \A other \in hits : idx <= other

\* The value setter of an options-typed Value that is not read-only: the
\* editor's index follows a found option, and the finally clause stores x
\* whether or not _find_option_idx raised.
ValueSetter(w, x) ==
    LET idx == FindOptionIdx(Options, x) IN
    IF idx = 0
    THEN [widget |-> [value |-> x, index |-> w.index], result |-> "RuntimeError"]
    ELSE [widget |-> [value |-> x, index |-> idx], result |-> "ok"]

\* Value.__init__ for a topic with options and no default: _value is None and
\* the QComboBox shows its first item.
InitOptions ==
    /\ tree = <<NewTopic(<<>>)>>
    /\ pre = tree
    /\ last = Call("init", <<>>, None, None, None, None, FALSE, FALSE,
                   Outcome(tree, <<>>, "ok"), None)
    /\ budget = MaxSetOps
    /\ inner = <<NewTopic(<<>>)>>
    /\ resync = <<>>
    /\ relayed = <<>>
    /\ pc = [th \in Producers |-> [at |-> "idle", ev |-> 0]]
    /\ posted = <<>>
    /\ ran = <<>>
    /\ enq = <<>>
    /\ widget = [value |-> None, index |-> 1]

\* value.value = x
SetValue(x) ==
    /\ budget > 0
    /\ LET r == ValueSetter(widget, x) IN
        /\ widget' = r.widget
        /\ last' = Call("value.setter", <<>>, x, None, None, None, FALSE, FALSE,
                        Outcome(tree, <<>>, r.result), None)
    /\ budget' = budget - 1
    /\ UNCHANGED <<tree, pre, inner, resync, relayed, threads>>

NextOptions == \E x \in Assigned : SetValue(x)

SpecOptions == InitOptions /\ [][NextOptions]_vars

\* ---------------------------------------------------- vocabulary of the claims

\* An ordinary topic: not empty, not ending in '$' or '?'.
Ordinary(topic) == Len(topic) > 0 /\ topic[Len(topic)] \notin {"$", "?"}

\* The nodes of t whose path is topic (no node: the empty set).
NodesAt(t, topic) == {i \in 1..Len(t) : t[i].topic = topic}

\* The retained value t holds for topic; None when topic has no node.
StoredValue(t, topic) ==
    IF NodesAt(t, topic) = {} THEN None
    ELSE t[CHOOSE i \in NodesAt(t, topic) : TRUE].value

\* Node j is node i or one of its ancestors: its key is a prefix of i's key.
OnChain(t, j, i) ==
    /\ Len(t[j].key) <= Len(t[i].key)
    /\ SubSeq(t[i].key, 1, Len(t[j].key)) = t[j].key

\* The registrations of cbk on the nodes in the set nodes, as (node, position).
RegsOf(t, nodes, cbk) ==
    UNION {{<<n, k>> : k \in {k \in 1..Len(t[n].subscribers) :
                                t[n].subscribers[k].cbk = cbk}} : n \in nodes}

\* The forward registrations among them.
ForwardRegsOf(t, nodes, cbk) ==
    {r \in RegsOf(t, nodes, cbk) : t[r[1]].subscribers[r[2]].forward}

\* The registrations of cbk on the node with this path and on its ancestors.
ChainRegs(t, topic, cbk) ==
    RegsOf(t, {j \in 1..Len(t) : \E i \in NodesAt(t, topic) : OnChain(t, j, i)}, cbk)

\* Number of invocations of cbk among events.
Invocations(events, cbk) ==
    Cardinality({k \in 1..Len(events) : events[k].cbk = cbk})

\* Number of invocations of cbk with exactly this topic and value.
InvocationsWith(events, cbk, topic, value) ==
    Cardinality({k \in 1..Len(events) :
        events[k].cbk = cbk /\ events[k].topic = topic /\ events[k].value = value})

\* Node i and its ancestors.
ChainOf(t, i) == {j \in 1..Len(t) : OnChain(t, j, i)}

\* The deepest node of t on the way from the root to the path of topic: the one
\* with the longest key among those whose key begins the path.
DeepestAlong(t, topic) ==
    LET parts == Split(StripSuffix(topic))
        along == {i \in 1..Len(t) :
                    /\ Len(t[i].key) <= Len(parts)
                    /\ SubSeq(parts, 1, Len(t[i].key)) = t[i].key}
    IN CHOOSE i \in along : \A j \in along : Len(t[j].key) <= Len(t[i].key)

\* call is publish(T, V) for an ordinary topic T, retained or not as said.
IsValuePublish(call, retained) ==
    /\ call.op = "publish"
    /\ Ordinary(call.topic)
    /\ (call.retain = "True") = retained

\* ------------------------------------------------------------------ claims

\* C1: once publish(T, V, retain=True) on an ordinary topic T has returned,
\* get(T) succeeds and returns V (the callbacks here never publish).
C1_RetainedPublishThenGet ==
    IsValuePublish(last, TRUE)
        => PubSubGet(tree, last.topic) = [result |-> "ok", ret |-> last.value]

\* C1 happens: a retained publish of v2 to a topic that held v1 has returned.
C1_Witness ==
    /\ IsValuePublish(last, TRUE)
    /\ last.value = "v2"
    /\ StoredValue(pre, last.topic) = "v1"

\* call, made on the tree before, is a retained publish of the value the
\* existing node already holds.
IsDuplicate(before, call) ==
    /\ IsValuePublish(call, TRUE)
    /\ NodesAt(before, call.topic) # {}
    /\ StoredValue(before, call.topic) = call.value

\* call, made on the tree before, is deduplicated: a retained publish of the
\* value stored for the topic (None when the node is only now created).
Deduplicated(before, call) ==
    /\ IsValuePublish(call, TRUE)
    /\ StoredValue(before, call.topic) = call.value

\* The node of topic upper is the node of topic lower or one of its ancestors.
AtOrAbove(t, upper, lower) ==
    \E j \in NodesAt(t, upper), i \in NodesAt(t, lower) : OnChain(t, j, i)

\* first and second are the same retained publish, made with no exclusion.
SamePublishTwice(first, second) ==
    /\ IsValuePublish(first, TRUE)
    /\ IsValuePublish(second, TRUE)
    /\ first.topic = second.topic
    /\ first.value = second.value
    /\ first.src_cbk = None
    /\ second.src_cbk = None

\* C2, as claimed (read for a value V other than None): a retained publish
\* of the value the node holds changes nothing and invokes nobody, and two
\* consecutive publish(T, V, retain=True) deliver exactly one (T, V) to each
\* registration on T and its ancestors.
C2_ExactlyOneOfTwo ==
    [][ /\ IsDuplicate(tree, last') => (tree' = tree /\ last'.events = <<>>)
        /\ (SamePublishTwice(last, last') /\ last.value # None) =>
             \A c \in Callbacks :
                InvocationsWith(last.events \o last'.events, c, last.topic,
                                last.value)
                  = Cardinality(ChainRegs(tree, last.topic, c)) ]_vars

\* C2, amended: a retained publish of the value the node holds changes nothing
\* and invokes nobody; of two consecutive publish(T, V, retain=True) the second
\* delivers nothing, and the first delivers exactly one (T, V) to each
\* registration on T and its ancestors when T did not hold V before it, and
\* nothing when T already held V.
C2_DedupNoOp ==
    [][ /\ IsDuplicate(tree, last') => (tree' = tree /\ last'.events = <<>>)
        /\ SamePublishTwice(last, last') =>
             /\ last'.events = <<>>
             /\ \A c \in Callbacks :
                  /\ Invocations(last.events, c)
                       = InvocationsWith(last.events, c, last.topic, last.value)
                  /\ Invocations(last.events, c)
                       = IF StoredValue(pre, last.topic) # last.value
                         THEN Cardinality(ChainRegs(tree, last.topic, c))
                         ELSE 0 ]_vars

\* C2 happens: the value a node with a subscriber holds was published again,
\* retained.
C2_Witness ==
    /\ IsDuplicate(pre, last)
    /\ last.value # None
    /\ last.src_cbk = None
    /\ \E c \in Callbacks : ChainRegs(pre, last.topic, c) # {}
    /\ last.events = <<>>

\* C3: publish(T, V) without retain delivers (T, V) to every registration on
\* T and its ancestors (the excluded callback apart) and leaves T without a
\* retained value: get(T) then returns None.
C3_TransientPublishClears ==
    IsValuePublish(last, FALSE) =>
        /\ PubSubGet(tree, last.topic) = [result |-> "ok", ret |-> None]
        /\ \A c \in Callbacks \ {last.src_cbk} :
             /\ InvocationsWith(last.events, c, last.topic, last.value)
                  = Cardinality(ChainRegs(tree, last.topic, c))
             /\ Cardinality(ChainRegs(tree, last.topic, c)) = Invocations(last.events, c)

\* C3 happens: T held the retained value V, V was published to it without
\* retain, and a subscriber was told.
C3_Witness ==
    /\ IsValuePublish(last, FALSE)
    /\ last.value # None
    /\ StoredValue(pre, last.topic) = last.value
    /\ last.events # <<>>

\* C4, as claimed: a callback subscribed to T right after a retained publish
\* of V (not None) to T receives (T, V) inside subscribe when skip_retained is
\* false; it receives nothing when skip_retained is true, or when the publish to
\* T before it was not retained.
C4_NothingWithoutRetained ==
    [][ last'.op = "subscribe" =>
          /\ ( /\ IsValuePublish(last, TRUE)
               /\ last.value # None
               /\ last.topic = last'.topic
               /\ ~last'.skip_retained ) =>
                InvocationsWith(last'.events, last'.cbk, last.topic, last.value) = 1
          /\ last'.skip_retained => last'.events = <<>>
          /\ (IsValuePublish(last, FALSE) /\ last.topic = last'.topic) =>
                last'.events = <<>> ]_vars

\* C4, amended: with skip_retained true subscribe(T, c) invokes nobody; with
\* skip_retained false it invokes only c, with (T, V) exactly once when T holds
\* a retained value V other than None and with no event for T otherwise (the
\* retained values of T's descendants are replayed all the same).
C4_ReplayOnSubscribe ==
    last.op = "subscribe" =>
        LET v == StoredValue(pre, last.topic)
            forT == {k \in 1..Len(last.events) : last.events[k].topic = last.topic}
        IN
        /\ last.skip_retained => last.events = <<>>
        /\ ~last.skip_retained =>
              /\ Invocations(last.events, last.cbk) = Len(last.events)
              /\ Cardinality(forT) = IF v # None THEN 1 ELSE 0
              /\ InvocationsWith(last.events, last.cbk, last.topic, v)
                   = Cardinality(forT)

\* C4 happens: a callback subscribed to a topic holding v1 was handed it at once.
C4_Witness ==
    /\ last.op = "subscribe"
    /\ ~last.skip_retained
    /\ StoredValue(pre, last.topic) = "v1"
    /\ InvocationsWith(last.events, last.cbk, last.topic, "v1") = 1

\* C5: after unsubscribe(T, c) no registration of c is left on T, however many
\* there were, and a publish to T or below that follows invokes c only through
\* its registrations on the other nodes of the chain.
C5_UnsubscribeRemovesAll ==
    [][ /\ last'.op = "unsubscribe" =>
             RegsOf(tree', NodesAt(tree', last'.topic), last'.cbk) = {}
        /\ ( /\ last.op = "unsubscribe"
             /\ last'.op = "publish"
             /\ Ordinary(last'.topic)
             /\ AtOrAbove(tree', last.topic, last'.topic) ) =>
             Invocations(last'.events, last.cbk)
               = IF last.cbk = last'.src_cbk \/ Deduplicated(tree, last') THEN 0
                 ELSE Cardinality(ChainRegs(tree', last'.topic, last.cbk)
                        \ RegsOf(tree', NodesAt(tree', last.topic), last.cbk)) ]_vars

\* C5 happens: a callback registered twice on T was unsubscribed from T.
C5_Witness ==
    /\ last.op = "unsubscribe"
    /\ Cardinality(RegsOf(pre, NodesAt(pre, last.topic), last.cbk)) = 2

\* C6: a value publish to T that is not deduplicated invokes every registration
\* on T and on each ancestor of T, the root included, and no other (the
\* excluded callback apart), each with the path of T and the value published.
C6_NotifyNodeAndAncestors ==
    (last.op = "publish" /\ Ordinary(last.topic) /\ ~Deduplicated(pre, last)) =>
        /\ \A c \in Callbacks \ {last.src_cbk} :
              Invocations(last.events, c)
                = Cardinality(ChainRegs(tree, last.topic, c))
        /\ \A k \in 1..Len(last.events) :
              /\ last.events[k].topic = last.topic
              /\ last.events[k].value = last.value

\* C6 happens: a publish to a/b reached a subscriber on a/b and one on the
\* root, while a/b has an ancestor in between.
C6_Witness ==
    /\ last.op = "publish"
    /\ last.topic = T_ab
    /\ \E c \in Callbacks : RegsOf(tree, NodesAt(tree, T_ab), c) # {}
    /\ \E c \in Callbacks : RegsOf(tree, {1}, c) # {}
    /\ Len(last.events) >= 2

\* C7: a publish made with src_cbk = c never invokes c, on whichever node of the
\* chain c is registered, and still invokes every other registration on the
\* chain.
C7_SourceExcluded ==
    (last.op = "publish" /\ Ordinary(last.topic) /\ last.src_cbk # None) =>
        /\ Invocations(last.events, last.src_cbk) = 0
        /\ ~Deduplicated(pre, last) =>
              \A c \in Callbacks \ {last.src_cbk} :
                 Cardinality(ChainRegs(tree, last.topic, c))
                   = Invocations(last.events, c)

\* C7 happens: the source is registered on the node published to and on an
\* ancestor, another callback is registered on the chain, and only the other
\* one was invoked.
C7_Witness ==
    /\ last.op = "publish"
    /\ last.src_cbk = "c1"
    /\ \E r1, r2 \in ChainRegs(tree, last.topic, "c1") : r1[1] # r2[1]
    /\ ChainRegs(tree, last.topic, "c2") # {}
    /\ last.events # <<>>

\* C8: publish("$", None) hands every node of the engine's namespace that
\* carries metadata M, a/b with the M1 set by meta("a/b", M1) among them, to
\* the forward subscribers on the root (and on the node's other ancestors) as
\* the event (path + "$", M), once per registration.
C8_MetaBroadcast ==
    (last.op = "publish" /\ last.topic = <<"$">>) =>
        \A n \in 1..Len(tree) :
            ( /\ tree[n].meta # None
              /\ \E p \in NodesAt(tree, TopicPrefix) : OnChain(tree, p, n) ) =>
            \A c \in Callbacks \ {last.src_cbk} :
                InvocationsWith(last.events, c, tree[n].topic \o <<"$">>,
                                tree[n].meta)
                  = Cardinality(ForwardRegsOf(tree, ChainOf(tree, n), c))

\* C8 happens: a/b carries M1, c2 is a forward subscriber on the root, and
\* publish("$") handed it ("a/b$", M1).
C8_Witness ==
    /\ last.op = "publish"
    /\ last.topic = <<"$">>
    /\ \E n \in NodesAt(tree, T_ab) : tree[n].meta = "M1"
    /\ ForwardRegsOf(tree, {1}, "c2") # {}
    /\ InvocationsWith(last.events, "c2", T_ab \o <<"$">>, "M1") >= 1

\* C9: publish(P + "/$", None) for a topic that does not start with the engine's
\* prefix changes nothing in the tree and is handed, topic unchanged and with
\* value None, once to each forward registration on the deepest existing node
\* along P and on that node's ancestors (the excluded callback apart); nothing
\* else is delivered.
C9_RelayOutsideNamespace ==
    ( /\ last.op = "publish"
      /\ EndsWith(last.topic, <<"/", "$">>)
      /\ ~StartsWith(last.topic, TopicPrefix) ) =>
        /\ tree = pre
        /\ \A k \in 1..Len(last.events) :
              /\ last.events[k].topic = last.topic
              /\ last.events[k].value = None
              /\ last.events[k].cbk # last.src_cbk
        /\ \A c \in Callbacks \ {last.src_cbk} :
              Invocations(last.events, c)
                = Cardinality(ForwardRegsOf(tree,
                      ChainOf(tree, DeepestAlong(tree, last.topic)), c))

\* C9 happens: "b/c/$" was published while b exists (with stored metadata and
\* a forward subscriber) and b/c does not, and the subscriber on b was handed
\* the request.
C9_Witness ==
    /\ last.op = "publish"
    /\ last.topic = T_bc \o <<"/", "$">>
    /\ NodesAt(tree, T_bc) = {}
    /\ \E n \in NodesAt(tree, T_b) :
          /\ tree[n].meta # None
          /\ ForwardRegsOf(tree, {n}, "c2") # {}
    /\ last.events = <<Event("c2", last.topic, None, None)>>

\* C10: create(T, ...) on a topic that already has a node fails and leaves the
\* whole tree (every node's value, metadata and subscriber list) as it was,
\* invoking nobody.
C10_CreateExistingFails ==
    (last.op = "create" /\ NodesAt(pre, last.topic) # {}) =>
        /\ last.result = "ValueError"
        /\ tree = pre
        /\ last.events = <<>>

\* C10 happens: create with a descriptor was refused on a topic whose node
\* holds a retained value and a subscriber.
C10_Witness ==
    /\ last.op = "create"
    /\ last.value # None
    /\ last.result = "ValueError"
    /\ StoredValue(pre, last.topic) # None
    /\ \E n \in NodesAt(pre, last.topic) : pre[n].subscribers # <<>>

\* call is the queued call of _subscribe_device with a retained value.
IsRetainedRelay(call) == call.op = "_subscribe_device" /\ call.retain = "True"

\* call is a retained publish made on the device side.
IsDeviceSidePublish(call) == call.op = "comm.publish" /\ call.retain = "True"

C12_RelayOncePerDirection ==
    [][ /\ last'.op = "_subscribe_device" =>
              /\ Invocations(last'.events, SubscribeParentCbk) = 0
              /\ relayed' = <<>>
              /\ inner' = inner
              /\ resync' = Tail(resync)
        /\ last'.op = "publish" =>
              /\ resync' = resync
              /\ Invocations(last'.events, SubscribeParentCbk)
                   = IF Deduplicated(tree, last') THEN 0 ELSE 1
              /\ Len(relayed') = Invocations(last'.events, SubscribeParentCbk)
              /\ \A k \in 1..Len(relayed') :
                    relayed'[k] = [topic |-> SubSeq(last'.topic, Len(DevicePrefix) + 1,
                                                    Len(last'.topic)),
                                   value |-> last'.value, retain |-> last'.retain]
        /\ last'.op = "comm.publish" =>
              /\ tree' = tree
              /\ Len(resync') = Len(resync)
                   + (IF last'.retain = "True"
                         /\ StoredValue(inner, last'.topic) = last'.value
                      THEN 0 ELSE 1) ]_vars

\* C12 happens: a relay from the device side was delivered to a subscriber of
\* the application's engine on the chain where _subscribe_parent is registered,
\* and nothing went back.
C12_Witness ==
    /\ last.op = "_subscribe_device"
    /\ ChainRegs(tree, DevicePrefix \o last.topic, SubscribeParentCbk) # {}
    /\ Invocations(last.events, "c1") >= 1
    /\ relayed = <<>>

\* C13: get never changes the tree (no node is created, no value, metadata or
\* subscriber list is touched); on a topic without a node it fails with
\* KeyError, on a topic with one it returns the node's retained value.
C13_GetNeverMutates ==
    last.op = "get" =>
        /\ tree = pre
        /\ NodesAt(pre, last.topic) = {} => last.result = "KeyError"
        /\ NodesAt(pre, last.topic) # {} =>
              (last.result = "ok" /\ last.ret = StoredValue(pre, last.topic))

\* C13 happens: get failed on a topic without a node, in a tree that has
\* other nodes, one of them with metadata or a subscriber.
C13_Witness ==
    /\ last.op = "get"
    /\ last.result = "KeyError"
    /\ NodesAt(tree, last.topic) = {}
    /\ \E n \in 1..Len(pre) : pre[n].meta # None \/ pre[n].subscribers # <<>>

\* C14: publish with the empty topic fails with ValueError, leaves the tree as
\* it was and invokes nobody, the subscribers on the root included.
C14_EmptyTopicRejected ==
    (last.op = "publish" /\ last.topic = <<>>) =>
        /\ last.result = "ValueError"
        /\ tree = pre
        /\ last.events = <<>>

\* C14 happens: the empty topic was published to while the root had a
\* subscriber.
C14_Witness ==
    /\ last.op = "publish"
    /\ last.topic = <<>>
    /\ last.result = "ValueError"
    /\ \E c \in Callbacks : RegsOf(pre, {1}, c) # {}

\* C15, as claimed: subscribe(T, c) with a c that is not callable fails with
\* ValueError and leaves the tree as it was: no node is created, no
\* registration added, and a get(T) that failed before the call fails after it.
C15_FailedSubscribeLeavesTree ==
    (last.op = "subscribe" /\ ~Callable(last.cbk)) =>
        /\ last.result = "ValueError"
        /\ tree = pre
        /\ PubSubGet(pre, last.topic).result = "KeyError"
              => PubSubGet(tree, last.topic).result = "KeyError"

\* C16, as claimed: a create(T, metadata) that fails on the retain flag of the
\* metadata leaves the tree as it was: T has no node afterwards, no metadata is
\* stored and nobody was invoked.
C16_FailedCreateLeavesTree ==
    (last.op = "create" /\ last.result = "ValueError"
        /\ NodesAt(pre, last.topic) = {}) =>
        /\ tree = pre
        /\ NodesAt(tree, last.topic) = {}
        /\ \A n \in 1..Len(tree) : tree[n].meta # last.value
        /\ last.events = <<>>

\* call is publish(T, ...) with T ending in '?'.
IsQuery(call) ==
    call.op = "publish" /\ Len(call.topic) > 0 /\ call.topic[Len(call.topic)] = "?"

IsTopicMeta(call, reading) ==
    /\ call.op = "publish"
    /\ call.topic # <<"$">>
    /\ EndsWith(call.topic, <<"$">>)
    /\ ~EndsWith(call.topic, <<"/", "$">>)
    /\ StartsWith(call.topic, TopicPrefix)
    /\ (call.value = None) = reading

\* The topic T of publish(T + '$', ...).
MetaTopicOf(call) == SubSeq(call.topic, 1, Len(call.topic) - 1)

\* C18, as claimed: publish(T + '$', None) for T in the namespace hands T's
\* metadata M as (T + '$', M) to each forward registration on T and its
\* ancestors (the excluded callback apart) when T has metadata, and invokes
\* nobody when T has none, whatever retained value T holds.
C18_MetaReadReemits ==
    IsTopicMeta(last, TRUE) =>
        \A n \in NodesAt(tree, MetaTopicOf(last)) :
            \A c \in Callbacks \ {last.src_cbk} :
                IF tree[n].meta # None
                THEN /\ InvocationsWith(last.events, c, last.topic, tree[n].meta)
                          = Cardinality(ForwardRegsOf(tree, ChainOf(tree, n), c))
                     /\ Invocations(last.events, c)
                          = Cardinality(ForwardRegsOf(tree, ChainOf(tree, n), c))
                ELSE Invocations(last.events, c) = 0

\* C19: publish(T + '$', M) with M not None, T in the namespace, leaves T with a
\* node whose metadata is M and invokes each forward registration on T and its
\* ancestors exactly once with (T + '$', M), the excluded callback never, and
\* nobody else.
C19_MetaWrite ==
    IsTopicMeta(last, FALSE) =>
        /\ NodesAt(tree, MetaTopicOf(last)) # {}
        /\ \A n \in NodesAt(tree, MetaTopicOf(last)) :
              /\ tree[n].meta = last.value
              /\ \A c \in Callbacks \ {last.src_cbk} :
                    /\ InvocationsWith(last.events, c, last.topic, last.value)
                         = Cardinality(ForwardRegsOf(tree, ChainOf(tree, n), c))
                    /\ Invocations(last.events, c)
                         = Cardinality(ForwardRegsOf(tree, ChainOf(tree, n), c))
        /\ Invocations(last.events, last.src_cbk) = 0

\* C19 happens: M2 was written to a/b, which carried M1, and the forward
\* subscriber on the root and the one on a/b were each handed ("a/b$", M2).
C19_Witness ==
    /\ IsTopicMeta(last, FALSE)
    /\ last.value = "M2"
    /\ \E n \in NodesAt(pre, T_ab) :
          /\ pre[n].meta = "M1"
          /\ ForwardRegsOf(pre, {n}, "c2") # {}
    /\ ForwardRegsOf(pre, {1}, "c2") # {}
    /\ InvocationsWith(last.events, "c2", T_ab \o <<"$">>, "M2") = 2

\* C20: a value publish, retained or not, leaves the metadata of every node as
\* it was (a node it creates has none); a metadata write or request leaves the
\* retained value of every node as it was (a node it creates has none).
C20_MetaValueIndependent ==
    /\ (last.op = "publish" /\ Ordinary(last.topic)) =>
          /\ \A n \in 1..Len(pre) : tree[n].meta = pre[n].meta
          /\ \A n \in (Len(pre) + 1)..Len(tree) : tree[n].meta = None
    /\ (last.op = "publish" /\ EndsWith(last.topic, <<"$">>)) =>
          /\ \A n \in 1..Len(pre) : tree[n].value = pre[n].value
          /\ \A n \in (Len(pre) + 1)..Len(tree) : tree[n].value = None

\* C20 happens: a publish without retain cleared the value of a topic that
\* carries metadata, and the metadata is still there.
C20_Witness ==
    /\ IsValuePublish(last, FALSE)
    /\ StoredValue(pre, last.topic) = "v1"
    /\ StoredValue(tree, last.topic) = None
    /\ \E n \in NodesAt(tree, last.topic) : tree[n].meta = "M1"

\* C21, as claimed: a callback appears at most once in the subscriber list of
\* each node, so a value publish invokes it at most once per node of the chain.
C21_OneRegistrationPerNode ==
    /\ \A n \in 1..Len(tree) : \A c \in Callbacks :
          Cardinality(RegsOf(tree, {n}, c)) <= 1
    /\ (last.op = "publish" /\ Ordinary(last.topic)) =>
          \A c \in Callbacks :
             Invocations(last.events, c)
               <= Cardinality({r[1] : r \in ChainRegs(tree, last.topic, c)})

\* call is a publish of the protocol: a topic ending in '$' or '?'.
IsProtocolPublish(call) ==
    call.op = "publish" /\ Len(call.topic) > 0 /\ ~Ordinary(call.topic)

\* C22: a callback all of whose registrations were made with forward false is
\* invoked by no publish of the protocol ('$', P + '/$', T + '$' read or
\* written, '?'), relayed requests included, and no call at all hands it a topic
\* ending in '$' or '?'.
C22_NoProtocolToOrdinary ==
    \A c \in Callbacks :
        ForwardRegsOf(tree, 1..Len(tree), c) = {} =>
            /\ IsProtocolPublish(last) => Invocations(last.events, c) = 0
            /\ \A k \in 1..Len(last.events) :
                  last.events[k].cbk = c => Ordinary(last.events[k].topic)

\* C22 happens: metadata was written to a/b while c1 was registered on a/b
\* without forward and c2 on the chain with it; c2 alone was handed the event.
C22_Witness ==
    /\ IsTopicMeta(last, FALSE)
    /\ RegsOf(tree, NodesAt(tree, T_ab), "c1") # {}
    /\ ForwardRegsOf(tree, 1..Len(tree), "c1") = {}
    /\ Invocations(last.events, "c2") >= 1
    /\ Invocations(last.events, "c1") = 0

\* C23, as claimed: a leading '/' is ignored: publish("/" + T, V, retain=True)
\* makes get(T) return V and hands its subscribers the path T, and subscribe and
\* get on "/" + T address the node of T.
C23_LeadingSlashIgnored ==
    /\ (IsValuePublish(last, TRUE) /\ last.topic \in SlashTopics) =>
          /\ PubSubGet(tree, Tail(last.topic)) = [result |-> "ok", ret |-> last.value]
          /\ \A k \in 1..Len(last.events) :
                last.events[k].topic = Tail(last.topic)
    /\ (last.op = "get" /\ last.topic \in SlashTopics) =>
          /\ last.result = PubSubGet(pre, Tail(last.topic)).result
          /\ last.ret = PubSubGet(pre, Tail(last.topic)).ret
    /\ (last.op = "subscribe" /\ last.topic \in SlashTopics) =>
          RegsOf(tree, NodesAt(tree, Tail(last.topic)), last.cbk) # {}

\* The topics behind call.topic: every T with call.topic = T + s for a string s
\* over '/', '$', '?' used here (s may be empty).
BaseTopicsOf(call) ==
    {T \in {T_ab} \cup SlashTopics :
        \E s \in Suffixes \cup {<<>>} : call.topic = T \o s}

\* C29: get(T + s) gives what get(T) gives, and subscribe(T + s, c) registers c
\* on the node of T and leaves the tree as subscribe(T, c) would, for every
\* string s over '/', '$', '?'; get on a topic made only of such characters, or
\* on the empty topic, reads the root and never fails.
C29_TrailingCharsDiscarded ==
    /\ last.op = "get" =>
          /\ \A T \in BaseTopicsOf(last) :
                /\ last.result = PubSubGet(pre, T).result
                /\ last.ret = PubSubGet(pre, T).ret
          /\ last.topic \in SuffixOnlyTopics =>
                (last.result = "ok" /\ last.ret = pre[1].value)
    /\ last.op = "subscribe" =>
          \A T \in BaseTopicsOf(last) :
             /\ tree = PubSubSubscribe(pre, T, last.cbk, last.skip_retained,
                                       last.forward).tree
             /\ Cardinality(RegsOf(tree, NodesAt(tree, T), last.cbk))
                  = Cardinality(RegsOf(pre, NodesAt(pre, T), last.cbk)) + 1

\* C29 happens: get("a/b$?/") returned the value retained for a/b.
C29_Witness ==
    /\ last.op = "get"
    /\ last.topic = T_ab \o <<"$", "?", "/">>
    /\ last.result = "ok"
    /\ last.ret = "v1"
    /\ StoredValue(pre, T_ab) = "v1"

\* The registrations a publish to topic made with source src invokes: those
\* on the node of topic and on its ancestors whose callback is not src.
InvokedRegs(t, topic, src) ==
    UNION {ChainRegs(t, topic, c) : c \in Callbacks \ {src}}

\* Registration q comes before registration r: q is on a deeper node, or on the
\* same node and earlier in its subscriber list.
Precedes(t, q, r) ==
    \/ Len(t[q[1]].key) > Len(t[r[1]].key)
    \/ (q[1] = r[1] /\ q[2] < r[2])

\* C24: the invocations of one value publish, all made before publish
\* returns, are those of the registrations on the originating node in
\* registration order, then those on its parent in registration order, and so
\* on, the root's last.
C24_DeliveryOrder ==
    (last.op = "publish" /\ Ordinary(last.topic) /\ ~Deduplicated(pre, last)) =>
        LET regs == InvokedRegs(tree, last.topic, last.src_cbk) IN
        /\ Len(last.events) = Cardinality(regs)
        /\ \A r \in regs :
              LET rank == Cardinality({q \in regs : Precedes(tree, q, r)}) + 1
              IN last.events[rank].cbk = tree[r[1]].subscribers[r[2]].cbk

\* C24 happens: a/b has c2 and then c1 registered, the root c2, and a publish
\* to a/b invoked c2, c1, c2 in that order.
C24_Witness ==
    /\ last.op = "publish"
    /\ last.topic = T_ab
    /\ last.src_cbk = None
    /\ \E n \in NodesAt(tree, T_ab) :
          /\ Len(tree[n].subscribers) = 2
          /\ tree[n].subscribers[1].cbk = "c2"
          /\ tree[n].subscribers[2].cbk = "c1"
    /\ Len(tree[1].subscribers) = 1
    /\ tree[1].subscribers[1].cbk = "c2"
    /\ [k \in 1..Len(last.events) |-> last.events[k].cbk] = <<"c2", "c1", "c2">>

\* C26, as claimed: a retained None is a value like any other:
\* publish(T, None, retain=True) on a topic without a node invokes the
\* registrations on the chain of T, and a subscribe to T (skip_retained false)
\* that follows it is replayed (T, None).
C26_NullDistinguishable ==
    [][ /\ ( /\ IsValuePublish(last', TRUE)
             /\ last'.value = None
             /\ NodesAt(tree, last'.topic) = {} ) =>
              \A c \in Callbacks \ {last'.src_cbk} :
                 InvocationsWith(last'.events, c, last'.topic, None)
                   = Cardinality(ChainRegs(tree', last'.topic, c))
        /\ ( /\ IsValuePublish(last, TRUE)
             /\ last.value = None
             /\ last'.op = "subscribe"
             /\ last'.topic = last.topic
             /\ ~last'.skip_retained ) =>
              InvocationsWith(last'.events, last'.cbk, last.topic, None) = 1 ]_vars

\* C28: no call removes or renames a node (so a get that succeeded keeps
\* succeeding), and with every node the tree holds the node of each proper
\* prefix of its path.
C28_TreeGrowsPrefixClosed ==
    /\ Len(tree) >= Len(pre)
    /\ \A n \in 1..Len(pre) : tree[n].key = pre[n].key /\ tree[n].topic = pre[n].topic
    /\ \A T \in NodeTopics \cup OtherTopics :
          PubSubGet(pre, T).result = "ok" => PubSubGet(tree, T).result = "ok"
    /\ \A n \in 1..Len(tree) : \A m \in 0..(Len(tree[n].key) - 1) :
          \E j \in 1..Len(tree) : tree[j].key = SubSeq(tree[n].key, 1, m)

\* C28 happens: an unsubscribe from a/b created a and a/b in a tree that
\* already had another node.
C28_Witness ==
    /\ last.op = "unsubscribe"
    /\ last.topic = T_ab
    /\ Len(pre) >= 2
    /\ Len(tree) = Len(pre) + 2
    /\ NodesAt(tree, T_a) # {}

\* The nodes of the subtree of topic that hold a retained value.
RetainedBelow(t, topic) ==
    {n \in 1..Len(t) :
        /\ t[n].value # None
        /\ \E i \in NodesAt(t, topic) : OnChain(t, i, n)}

\* C30: subscribe(T, c) with skip_retained false invokes c alone, exactly once
\* with (path, value) for each node at or below T that holds a retained value,
\* and with nothing else.
C30_ReplaySubtree ==
    (last.op = "subscribe" /\ ~last.skip_retained) =>
        /\ \A k \in 1..Len(last.events) : last.events[k].cbk = last.cbk
        /\ Len(last.events) = Cardinality(RetainedBelow(tree, last.topic))
        /\ \A n \in 1..Len(tree) :
              Cardinality({k \in 1..Len(last.events) :
                              last.events[k].topic = tree[n].topic})
                = IF n \in RetainedBelow(tree, last.topic) THEN 1 ELSE 0
        /\ \A n \in RetainedBelow(tree, last.topic) :
              InvocationsWith(last.events, last.cbk, tree[n].topic, tree[n].value) = 1

\* C30 happens: c1 subscribed to a/b while a/b and its parent a both held a
\* value and c2 was registered on a/b; c1 was handed the value of a/b only.
C30_Witness ==
    /\ last.op = "subscribe"
    /\ ~last.skip_retained
    /\ last.topic = T_ab
    /\ last.cbk = "c1"
    /\ StoredValue(tree, T_a) = "v1"
    /\ StoredValue(tree, T_ab) = "v2"
    /\ RegsOf(tree, NodesAt(tree, T_ab), "c2") # {}
    /\ last.events = <<Event("c1", T_ab, "v2", None)>>

\* C27: a create(T, metadata) on a topic without a node stores the metadata on
\* T and, when the metadata declares a default D, publishes D on T with the
\* retain flag of the metadata read by _as_bool: the flag 1 (or a value equal to
\* it, True), 'yes', 'on', 'enable', 'enabled', 'true', 'active' in any case
\* retains D, so that get(T) returns D; the flag 0 (or False), 'no', 'off',
\* 'disable', 'disabled', 'false', 'inactive' in any case, or no flag, hands D to
\* every registration on T and its ancestors once and leaves get(T) at None;
\* any other flag raises ValueError.  A default of None retained on the fresh
\* node is a duplicate of the node's value and is handed to nobody.
TrueSpellings ==
    {"#1", "#True", "yes", "on", "enable", "enabled", "true", "active",
     "YES", "True", "Enabled"}
FalseSpellings ==
    {"#0", "#False", "no", "off", "disable", "disabled", "false", "inactive",
     "Off"}
IsFreshCreate == last.op = "create" /\ NodesAt(pre, last.topic) = {}
DefaultDelivered(d) ==
    \A c \in Callbacks :
        /\ InvocationsWith(last.events, c, last.topic, d)
             = Cardinality(ChainRegs(tree, last.topic, c))
        /\ Invocations(last.events, c) = Cardinality(ChainRegs(tree, last.topic, c))
CreateOutcome(trueFlags, falseFlags) ==
    IsFreshCreate =>
        LET meta == last.value
            flag == RetainOf(meta)
            n == CHOOSE i \in NodesAt(tree, last.topic) : TRUE
        IN IF ~HasDefault(meta)
           THEN /\ last.result = "ok"
                /\ tree[n].meta = meta
                /\ last.events = <<>>
                /\ PubSubGet(tree, last.topic).ret = None
           ELSE IF flag \in trueFlags
           THEN /\ last.result = "ok"
                /\ tree[n].meta = meta
                /\ PubSubGet(tree, last.topic).ret = DefaultOf(meta)
                /\ IF DefaultOf(meta) = None THEN last.events = <<>>
                   ELSE DefaultDelivered(DefaultOf(meta))
           ELSE IF flag \in falseFlags
           THEN /\ last.result = "ok"
                /\ tree[n].meta = meta
                /\ PubSubGet(tree, last.topic).ret = None
                /\ DefaultDelivered(DefaultOf(meta))
           ELSE last.result = "ValueError"
C27_CreateHonoursRetain == CreateOutcome(TrueSpellings, FalseSpellings)

\* A create with a default and a flag spelled in capitals has run below a
\* subscriber, and so has one with the flag 'enabled'.
C27_Witness ==
    /\ IsFreshCreate
    /\ last.value \in {"YES", "Off", "enabled", "disabled"}
    /\ last.result = "ok"
    /\ last.events # <<>>

\* C27 as stated: the flag accepts exactly 0/1, no/yes, off/on, disable/enable,
\* false/true, inactive/active (a str in any case, a bool as the int it equals),
\* and any other spelling is an error.
C27_ExactSpellings ==
    CreateOutcome(TrueSpellings \ {"enabled", "Enabled"},
                  FalseSpellings \ {"disabled"})

\* C25: delivery is depth-first.  Every invocation made by a call that a
\* callback made (a nested publish or subscribe) comes after the invocation of
\* that callback and before any later invocation of the call being delivered;
\* and the nested call is complete: the first publish of "v2" that "r_pub"
\* makes to a topic hands "v2" once to every registration of "c1" on the topic
\* and its ancestors, and the subscribe that "r_sub" makes replays to "c2" the
\* value the topic holds at that moment, if it holds one.
CausedBy(events, k) == {m \in 1..Len(events) : events[m].cause = k}
IsTrigger(events, k, cbk) == events[k].cbk = cbk /\ events[k].value = "v1"
FirstTrigger(events, k) ==
    /\ IsTrigger(events, k, "r_pub")
    /\ \A m \in 1..(k - 1) :
          ~(IsTrigger(events, m, "r_pub") /\ events[m].topic = events[k].topic)
HeldAt(events, k) ==
    IF \E m \in 1..(k - 1) :
          IsTrigger(events, m, "r_pub") /\ events[m].topic = events[k].topic
    THEN "v2"
    ELSE IF last.op = "publish" /\ last.retain # "True" THEN None
    ELSE "v1"
C25_DepthFirst ==
    LET ev == last.events IN
    \A k \in 1..Len(ev) :
        /\ \A m \in CausedBy(ev, k) :
              m > k /\ \A i \in (k + 1)..m : ev[i].cause >= k
        /\ FirstTrigger(ev, k) =>
              Cardinality({m \in CausedBy(ev, k) :
                              ev[m] = Invocation("c1", ev[k].topic, "v2", "True", k)})
                = Cardinality(ChainRegs(tree, ev[k].topic, "c1"))
        /\ IsTrigger(ev, k, "r_sub") =>
              IF HeldAt(ev, k) = None THEN CausedBy(ev, k) = {}
              ELSE /\ CausedBy(ev, k) = {k + 1}
                   /\ ev[k + 1] = Invocation("c2", ev[k].topic, HeldAt(ev, k), None, k)

\* A publish of "v1" has been delivered to "r_pub" and then to a later
\* subscriber, with the invocations of the nested publish in between.
C25_Witness ==
    LET ev == last.events IN
    /\ last.op = "publish"
    /\ \E k \in 1..Len(ev) :
          /\ IsTrigger(ev, k, "r_pub")
          /\ CausedBy(ev, k) # {}
          /\ \E n \in (k + 1)..Len(ev) : ev[n].cause = 0 /\ ev[n].cbk = "c1"

\* C31: a metadata broadcast, publish("$") for the namespace root or
\* publish(P + "/$") for P in the namespace, hands (path + "$", metadata) of each
\* node of that subtree carrying metadata once to every forward registration
\* on the node and its ancestors (the excluded callback apart) and makes no
\* event for any other node; a node's events come before those of the nodes
\* below it; for publish("$") the events ("$", None) come last and go to the
\* forward registrations on the root only, once each.
IsBroadcast ==
    /\ last.op = "publish"
    /\ \/ last.topic = <<"$">>
       \/ EndsWith(last.topic, <<"/", "$">>) /\ last.topic[1] = "a"
BroadcastRoot ==
    IF last.topic = <<"$">> THEN TopicPrefix
    ELSE SubSeq(last.topic, 1, Len(last.topic) - 2)
InBroadcast(n) ==
    /\ tree[n].meta # None
    /\ \E r \in NodesAt(tree, BroadcastRoot) : OnChain(tree, r, n)
IsMetaEventOf(e, n) ==
    e.topic = tree[n].topic \o <<"$">> /\ e.value = tree[n].meta
IsRequestEvent(e) == e.topic = <<"$">> /\ e.value = None
C31_BroadcastPreOrder ==
    IsBroadcast =>
        LET ev == last.events IN
        /\ \A n \in 2..Len(tree), c \in Callbacks \ {last.src_cbk} :
              Cardinality({k \in 1..Len(ev) :
                              ev[k].cbk = c /\ ev[k].topic = tree[n].topic \o <<"$">>})
                = IF InBroadcast(n)
                  THEN Cardinality(ForwardRegsOf(tree, ChainOf(tree, n), c))
                  ELSE 0
        /\ \A k \in 1..Len(ev) :
              /\ ev[k].cbk # last.src_cbk
              /\ \/ \E n \in 2..Len(tree) : InBroadcast(n) /\ IsMetaEventOf(ev[k], n)
                 \/ last.topic = <<"$">> /\ IsRequestEvent(ev[k])
        /\ \A k1, k2 \in 1..Len(ev), n1, n2 \in 2..Len(tree) :
              ( /\ IsMetaEventOf(ev[k1], n1) /\ IsMetaEventOf(ev[k2], n2)
                /\ n1 # n2 /\ OnChain(tree, n1, n2) ) => k1 < k2
        /\ \A k1, k2 \in 1..Len(ev) :
              (IsRequestEvent(ev[k1]) /\ ~IsRequestEvent(ev[k2])) => k2 < k1
        /\ last.topic = <<"$">> =>
              \A c \in Callbacks \ {last.src_cbk} :
                  Cardinality({k \in 1..Len(ev) :
                                  ev[k].cbk = c /\ IsRequestEvent(ev[k])})
                    = Cardinality(ForwardRegsOf(tree, {1}, c))

\* publish("$") has handed a forward subscriber on the root the metadata of a,
\* then that of a/b, then ("$", None).
C31_Witness ==
    /\ last.op = "publish"
    /\ last.topic = <<"$">>
    /\ Len(last.events) = 3
    /\ last.events[1].topic = T_a \o <<"$">>
    /\ last.events[2].topic = T_ab \o <<"$">>
    /\ IsRequestEvent(last.events[3])

\* C32: publish(T + "$", V) for a topic T outside the namespace (one that does
\* not start with the prefix) hands
\* (T + "$", V), whatever V is, once to every forward registration on T and its
\* ancestors, the excluded callback apart, and to nobody else; every node keeps
\* its value, its metadata and its subscribers, and a node the call creates
\* holds neither value nor metadata.
IsOutsideMeta ==
    /\ last.op = "publish"
    /\ Len(last.topic) > 1
    /\ last.topic[Len(last.topic)] = "$"
    /\ ~EndsWith(last.topic, <<"/", "$">>)
    /\ ~StartsWith(last.topic, TopicPrefix)
C32_OutsidePassthrough ==
    IsOutsideMeta =>
        LET T == SubSeq(last.topic, 1, Len(last.topic) - 1) IN
        /\ last.result = "ok"
        /\ \A k \in 1..Len(last.events) :
              /\ last.events[k].topic = last.topic
              /\ last.events[k].value = last.value
              /\ last.events[k].cbk # last.src_cbk
        /\ \A c \in Callbacks \ {last.src_cbk} :
              Invocations(last.events, c)
                = Cardinality(ForwardRegsOf(tree,
                      {j \in 1..Len(tree) :
                          \E i \in NodesAt(tree, T) : OnChain(tree, j, i)}, c))
        /\ Len(tree) >= Len(pre)
        /\ \A n \in 1..Len(pre) : tree[n] = pre[n]
        /\ \A n \in (Len(pre) + 1)..Len(tree) :
              /\ tree[n].value = None
              /\ tree[n].meta = None
              /\ tree[n].subscribers = <<>>

\* Metadata was written to "b/c$" while b holds metadata of its own and a
\* forward subscriber, and the subscriber was handed the write.
C32_Witness ==
    /\ IsOutsideMeta
    /\ last.topic = T_bc \o <<"$">>
    /\ last.value # None
    /\ \E n \in NodesAt(pre, T_b) : pre[n].meta = "M1"
    /\ last.events # <<>>

\* C33: in every reachable state each node's path is the '/'-join of the child
\* keys from the root down to it, the root is the only node whose path is
\* empty, distinct nodes have distinct paths, and _topic_find of a node's own
\* path returns that node.
C33_PathsWellFormed ==
    \A n \in 1..Len(tree) :
        /\ tree[n].topic = Join(tree[n].key)
        /\ tree[n].topic = <<>> => n = 1
        /\ \A m \in 1..Len(tree) : tree[m].topic = tree[n].topic => m = n
        /\ TopicFind(tree, tree[n].topic, FALSE).idx = n

\* C34: a callback c registered with Device.subscribe(topic, c) and passed as
\* src_cbk to Device.publish on a topic of its subscribed subtree is not
\* invoked for that publish.
C34_EchoSuppressedThroughDevice ==
    ( /\ last.op = "publish"
      /\ last.src_cbk \in Callbacks
      /\ \E n \in 1..Len(pre) :
            /\ \E i \in NodesAt(tree, last.topic) : OnChain(tree, n, i)
            /\ \E j \in 1..Len(pre[n].subscribers) :
                  pre[n].subscribers[j].cbk = SrcCbkFn(last.src_cbk) ) =>
        \A k \in 1..Len(SrcCbkFnCalls(last.events)) :
            SrcCbkFnCalls(last.events)[k].cbk # last.src_cbk

\* C35: however the producer threads interleave, the calls Resync.event has
\* made are, in order and once each, the first of the calls put on the queue;
\* the calls still queued are the rest; no event finds the queue empty (every
\* event posted or about to be posted has its queue entry); a call that raises
\* is logged and the next ones run; and when no thread is inside
\* _resync_handle and no event is pending, every call has been made.
C35_ResyncMarshals ==
    /\ Len(ran) <= Len(enq)
    /\ \A k \in 1..Len(ran) : ran[k].outcome # "Empty" /\ ran[k].fn = enq[k]
    /\ [k \in 1..Len(resync) |-> resync[k].fn]
         = SubSeq(enq, Len(ran) + 1, Len(enq))
    /\ Len(resync)
         = Len(posted) + Cardinality({th \in Producers : pc[th].at = "post"})
    /\ (posted = <<>> /\ \A th \in Producers : pc[th].at = "idle")
          => Len(ran) = Len(enq)

\* Two threads put their calls in one order and posted their events in the
\* other; the first call raised, and the second ran after it.
C35_Witness ==
    /\ Len(ran) >= 2
    /\ ran[1].mismatch
    /\ ran[1].outcome = "exception logged"
    /\ ran[2].outcome = "returned"
    /\ ran[1].fn.thread # ran[2].fn.thread

\* C36: setting an options-typed Value to something that is in none of its
\* options fails with "option not found" and leaves the Value as it was: the
\* value it holds after the failed set is the value it held before.
C36_FailedSetKeepsValue ==
    [][ (last'.op = "value.setter" /\ FindOptionIdx(Options, last'.value) = 0) =>
            /\ last'.result = "RuntimeError"
            /\ widget'.value = widget.value ]_vars

\* C37: when a subscriber unsubscribes itself while an event is delivered,
\* every other callback registered on the topic's node and its ancestors when
\* the publish started (none of them is unsubscribed) still receives the event
\* exactly once per registration.
C37_UnsubscribeDuringDelivery ==
    ( /\ last.op = "publish"
      /\ ~(last.retain = "True" /\ StoredValue(pre, last.topic) = last.value) ) =>
        \A c \in {"c1", "c2"} :
            InvocationsWith(last.events, c, last.topic, last.value)
              = Cardinality(RegsOf(pre,
                    {j \in 1..Len(pre) :
                        \E i \in NodesAt(tree, last.topic) : OnChain(tree, j, i)}, c))

\* C38: after a publish(T, V, retain=True) has returned, the last value each
\* subscriber registered on T received for T in that call is the value get(T)
\* returns, also when a subscriber republished another retained value to T
\* from inside its callback.
LastReceived(events, cbk, topic) ==
    LET ks == {k \in 1..Len(events) :
                  events[k].cbk = cbk /\ events[k].topic = topic}
    IN events[CHOOSE k \in ks : \A m \in ks : m <= k].value
C38_SubscribersEndConsistent ==
    (last.op = "publish" /\ last.retain = "True") =>
        \A n \in NodesAt(tree, last.topic) :
            \A j \in 1..Len(tree[n].subscribers) :
                LET c == tree[n].subscribers[j].cbk IN
                Invocations(last.events, c) > 0 =>
                    LastReceived(last.events, c, last.topic)
                      = PubSubGet(tree, last.topic).ret

\* C39: create(T, metadata with default D, callback c) on a topic without a
\* node never hands the default to c twice: c is invoked with (T, D) exactly
\* once when D is retained and skip_retained is false, also when c is already
\* subscribed on an ancestor of T, and not at all when skip_retained is true or
\* D is not retained; every registration of another callback on the ancestors
\* of T receives (T, D) exactly once.  (A default None that is retained is a
\* duplicate of the fresh node's value, and so is handed to nobody.)
IsCreateWithCallback ==
    /\ IsFreshCreate
    /\ last.cbk # None
    /\ HasDefault(last.value)
    /\ last.result = "ok"
DefaultRetained == AsBool(RetainOf(last.value)) = "True"
C39_DefaultOnceToCallback ==
    IsCreateWithCallback =>
        LET D == DefaultOf(last.value)
            c == last.cbk
        IN /\ Invocations(last.events, c) <= 1
           /\ (DefaultRetained /\ ~last.skip_retained /\ D # None) =>
                 /\ InvocationsWith(last.events, c, last.topic, D) = 1
                 /\ PubSubGet(tree, last.topic).ret = D
           /\ (last.skip_retained \/ ~DefaultRetained) =>
                 Invocations(last.events, c) = 0
           /\ \A o \in Callbacks \ {c} :
                 /\ Invocations(last.events, o)
                      = InvocationsWith(last.events, o, last.topic, D)
                 /\ ~(DefaultRetained /\ D = None) =>
                       Invocations(last.events, o)
                         = Cardinality(ChainRegs(tree, last.topic, o))

\* create with a retained default and the callback c1 has run while c1 was
\* already subscribed on an ancestor and c2 on another: each was handed the
\* default once.
C39_Witness ==
    /\ IsCreateWithCallback
    /\ last.value = "MD1"
    /\ last.cbk = "c1"
    /\ ~last.skip_retained
    /\ ChainRegs(pre, T_a, "c1") # {}
    /\ ChainRegs(pre, T_a, "c2") # {}
    /\ Len(last.events) = 2

\* C40: a metadata topic is inside the namespace only when its path is the
\* prefix or lies below it at a '/': for the prefix "a", a write to "ab/x$" and
\* a request "ab/$" are handled as outside, like "b/c$" and "b/$": the write
\* is relayed and stored nowhere, the request is relayed and creates no node.
C40_PrefixAtSegmentBoundary ==
    ( /\ last.op = "publish"
      /\ StartsWith(last.topic, <<"a", "b", "/">>) ) =>
        /\ \A k \in 1..Len(last.events) :
              last.events[k].topic = last.topic /\ last.events[k].value = last.value
        /\ \A n \in 1..Len(pre) : tree[n] = pre[n]
        /\ \A n \in (Len(pre) + 1)..Len(tree) : tree[n].meta = None
        /\ EndsWith(last.topic, <<"/", "$">>) =>
              /\ tree = pre
              /\ \A c \in Callbacks :
                    Invocations(last.events, c)
                      = Cardinality(ForwardRegsOf(tree,
                            ChainOf(tree, DeepestAlong(tree, last.topic)), c))

====
